---- MODULE Spec2Model ----
(***************************************************************************)
(* A model of the storage and synchronisation engine of syncer: vector     *)
(* clocks and the three-way merge of inode entries (src/src/filesystem),   *)
(* the inode log and save_node, the fetch coordinator, the write-back      *)
(* cache and eviction (src/src/backingstore).                              *)
(*                                                                         *)
(* The module holds several specifications over one set of variables. Each *)
(* specification moves the variables of one part of the program and keeps  *)
(* the others at their idle value:                                         *)
(*   SpecVClock  VectorClock values built by increment and merge           *)
(*   SpecMerge   FSEntry::merge_3way applied to enumerated entries         *)
(*   SpecFetch   get_blob / fetch_from_server / readahead_from_server      *)
(*   SpecSave    concurrent BlobStorage::save_node calls on one inode      *)
(*   SpecPeers   two peers exchanging their node logs                      *)
(*   SpecStore   write, read, sync_node, do_save, do_uploads, do_removals  *)
(***************************************************************************)
EXTENDS Integers, Sequences, FiniteSets, TLC

(***************************************************************************)
(* Bounds of the model.                                                    *)
(***************************************************************************)
\* Largest counter a vector clock entry reaches in SpecVClock.
MaxCount == 2

(***************************************************************************)
(* Tunables of src/src/settings.rs. BLKSIZE and KEEP_UP_TO_SIZE are scaled *)
(* down (from 1000000 and 65536 bytes) so that blocks and evictable blobs  *)
(* are a few bytes long; the code uses them only in comparisons and in     *)
(* block arithmetic.                                                       *)
(***************************************************************************)
TO_UPLOAD == 4
TO_UPLOAD_NODES == 10
TO_DELETE == 100
KEEP_UP_TO_SIZE == 1
READAHEAD == 3
BLKSIZE == 2

\* Config::maxbytes, the local cache budget the instances are configured with.
maxbytes == 4

(***************************************************************************)
(* Generic helpers: Option values are <<>> (None) or <<v>> (Some(v)); a    *)
(* BTreeMap is a function whose DOMAIN is its key set.                     *)
(***************************************************************************)
None == <<>>
Some(v) == <<v>>
EmptyMap == [k \in {} |-> 0]
MapGet(m, k) == IF k \in DOMAIN m THEN Some(m[k]) ELSE None
MaxOf(a, b) == IF a >= b THEN a ELSE b
MinOf(a, b) == IF a <= b THEN a ELSE b

Range(seq) == {seq[i] : i \in DOMAIN seq}
Prefix(seq, n) == SubSeq(seq, 1, MinOf(n, Len(seq)))

\* The keys of a BTreeMap<i64, _> in iteration (ascending) order.
RECURSIVE SortedKeys(_)
SortedKeys(S) ==
  IF S = {} THEN <<>>
  ELSE LET m == CHOOSE x \in S : \A y \in S : x <= y
       IN <<m>> \o SortedKeys(S \ {m})

(***************************************************************************)
(* Variables.                                                              *)
(***************************************************************************)
VARIABLES
  \* SpecVClock: three vector clocks
  vcA, vcB, vcC,
  \* SpecMerge: the inputs of merge_3way and its two results
  mBase, mFirst, mSecond, mOut,
  \* Per peer the state of one running instance (see PeerNew); the blobs
  \* directory and the nodes directory of the server; per peer the wall clock
  \* of its machine in milliseconds (timeval())
  inst, remote, srvNodes, now,
  \* SpecFetch: per thread its position, the digest it works on, the latch it
  \* waits on and what fetch_from_server and get_blob returned; the ongoing
  \* map; per latch (named by the thread that created it) its value and
  \* whether its creator holds it
  fpc, fhash, fwait, fret, gret, ongoing, latchVal, latchHeld,
  \* SpecFetch, history: transport pulls completed per digest, the outcome of
  \* the pull each thread ran, whether get_blob found the file missing
  pulls, pullOutcome, sawMissing,
  \* SpecPeers, history: per peer the number of its local revisions and the
  \* head it made its first revision from
  pmods, pbase,
  \* SpecSave: per thread its position, the entry it is saving and the head
  \* entry read_node returned; history: the entries each thread has called
  \* save_node with
  spc, sentry, scurr, scalls,
  \* SpecStore, history: the writes and chmods made so far; the last write
  \* when it returned Ok; of the latest step the read it made, the call of
  \* BackingStore::sync_node it made, and the blobs it unlinked in
  \* do_removals, each with its catalog flag at the unlink
  sops, wlast, rd, lastSync, evicted,
  \* SpecCatalog, history: of the latest step the call made, the instance
  \* before it, what it returned and its argument
  clast,
  \* SpecLocks: per thread its position in its call path; the locks held,
  \* each with its holder and mode; the ongoing map, per digest the thread
  \* whose latch is registered; per thread the latch it cloned from the map
  lpc, lheld, lreg, lwait,
  \* SpecTasks: per background task its position; of the running
  \* do_downloads_nodes its local offset and the nodes file it reads;
  \* history: the lines save_node was applied to, in order, the task that
  \* ran last with its outcome, and the number of times the process was killed
  tpc, trun, tapplied, tlast, tcrashes

vclockVars == <<vcA, vcB, vcC>>
mergeVars == <<mBase, mFirst, mSecond, mOut>>
worldVars == <<inst, remote, srvNodes, now>>
fetchVars == <<fpc, fhash, fwait, fret, gret, ongoing, latchVal, latchHeld,
               pulls, pullOutcome, sawMissing>>
peersVars == <<pmods, pbase>>
saveVars == <<spc, sentry, scurr, scalls>>
storeVars == <<sops, wlast, rd, lastSync, evicted>>
catalogVars == <<clast>>
locksVars == <<lpc, lheld, lreg, lwait>>
tasksVars == <<tpc, trun, tapplied, tlast, tcrashes>>
vars == <<vclockVars, mergeVars, worldVars, fetchVars, peersVars, saveVars, storeVars,
         catalogVars, locksVars, tasksVars>>

(***************************************************************************)
(* Vector clocks: src/src/filesystem/vclock.rs                             *)
(***************************************************************************)
\* The peers of the model (PeerId as i64).
Peers == {11, 22}
VCPeers == {11, 22, 33}

\* VectorClock::new
VectorClock_new == EmptyMap

\* VectorClock::increment
VectorClock_increment(vc, peer) ==
  LET counter == IF peer \in DOMAIN vc THEN vc[peer] ELSE 0
  IN [k \in DOMAIN vc \cup {peer} |-> IF k = peer THEN counter + 1 ELSE vc[k]]

\* A slip: the last differing counter decides and no conflict is detected.
CmpStep_lastwins(ordering, v1, v2) ==
  IF v1 = v2 THEN ordering ELSE IF v1 < v2 THEN "Less" ELSE "Greater"

\* One arm of the match in VectorClock::cmp: the ordering so far and the
\* comparison of the two counters of one key.
CmpStep(ordering, v1, v2) ==
  IF v1 = v2 THEN ordering
  ELSE IF v1 < v2
       THEN (IF ordering \in {"Equal", "Less"} THEN "Less" ELSE "Conflict")
       ELSE (IF ordering \in {"Equal", "Greater"} THEN "Greater" ELSE "Conflict")

RECURSIVE CmpFold(_, _, _, _)
CmpFold(keys, self, other, ordering) ==
  IF keys = <<>> THEN ordering
  ELSE LET k == Head(keys)
           v1 == IF k \in DOMAIN self THEN self[k] ELSE 0
           v2 == IF k \in DOMAIN other THEN other[k] ELSE 0
           next == CmpStep(ordering, v1, v2)
       IN IF next = "Conflict" THEN "Conflict"
          ELSE CmpFold(Tail(keys), self, other, next)

\* VectorClock::cmp: the keys of self, then the keys of other.
VectorClock_cmp(self, other) ==
  CmpFold(SortedKeys(DOMAIN self) \o SortedKeys(DOMAIN other), self, other, "Equal")

\* A merge that keeps the counter of self wherever self has the key.
VectorClock_merge_selffirst(self, other) ==
  [k \in DOMAIN self \cup DOMAIN other |->
     IF k \in DOMAIN self THEN self[k] ELSE other[k]]

\* VectorClock::merge
VectorClock_merge(self, other) ==
  [k \in DOMAIN self \cup DOMAIN other |->
     MaxOf(IF k \in DOMAIN self THEN self[k] ELSE 0,
           IF k \in DOMAIN other THEN other[k] ELSE 0)]

(***************************************************************************)
(* Inode entries: src/src/filesystem/entry.rs                              *)
(***************************************************************************)
\* FSEntry::new. Timestamps are points of one totally ordered clock.
FSEntry_new(filetype, peernum, time) ==
  [clock |-> time, vclock |-> VectorClock_new, peernum |-> peernum,
   filetype |-> filetype, perm |-> 0, uid |-> 0, gid |-> 0, flags |-> 0,
   rdev |-> 0, atime |-> time, mtime |-> time, ctime |-> time,
   crtime |-> time, chgtime |-> time, bkuptime |-> time,
   size |-> 0, blocks |-> <<>>, children |-> EmptyMap, xattrs |-> EmptyMap]

\* FSEntry::cmp_vclock
FSEntry_cmp_vclock(self, other) == VectorClock_cmp(self.vclock, other.vclock)

\* A merge that always takes the left side.
merge_3way_leftwins(base, left, right) == left

\* macro merge_3way!
merge_3way(base, left, right) == IF left = base THEN right ELSE left

\* macro merge_3way_hash!
merge_3way_hash(base, left, right) ==
  LET keys == DOMAIN left \cup DOMAIN right
      m(k) == merge_3way(MapGet(base, k), MapGet(left, k), MapGet(right, k))
      kept == {k \in keys : m(k) # None}
  IN [k \in kept |-> m(k)[1]]

\* A three-way merge whose result carries the vector clock of the left side.
FSEntry_merge_3way_leftclock(self, first, second) ==
  LET first_large == first.clock > second.clock \/ first.peernum > second.peernum
      left == IF first_large THEN first ELSE second
      right == IF first_large THEN second ELSE first
  IN [left EXCEPT !.clock = MaxOf(left.clock, right.clock),
                  !.perm = merge_3way(self.perm, left.perm, right.perm)]

\* FSEntry::merge_3way
FSEntry_merge_3way(self, first, second) ==
  LET first_large == first.clock > second.clock \/ first.peernum > second.peernum
      left == IF first_large THEN first ELSE second
      right == IF first_large THEN second ELSE first
  IN [clock |-> MaxOf(left.clock, right.clock),
      vclock |-> VectorClock_merge(left.vclock, right.vclock),
      peernum |-> MaxOf(left.peernum, right.peernum),
      filetype |-> left.filetype,
      perm |-> merge_3way(self.perm, left.perm, right.perm),
      uid |-> merge_3way(self.uid, left.uid, right.uid),
      gid |-> merge_3way(self.gid, left.gid, right.gid),
      flags |-> merge_3way(self.flags, left.flags, right.flags),
      rdev |-> merge_3way(self.rdev, left.rdev, right.rdev),
      atime |-> MaxOf(left.atime, right.atime),
      mtime |-> MaxOf(left.mtime, right.mtime),
      ctime |-> MaxOf(left.ctime, right.ctime),
      crtime |-> MaxOf(left.crtime, right.crtime),
      chgtime |-> MaxOf(left.chgtime, right.chgtime),
      bkuptime |-> MaxOf(left.bkuptime, right.bkuptime),
      size |-> merge_3way(self.size, left.size, right.size),
      blocks |-> merge_3way(self.blocks, left.blocks, right.blocks),
      children |-> merge_3way_hash(self.children, left.children, right.children),
      xattrs |-> merge_3way_hash(self.xattrs, left.xattrs, right.xattrs)]

(***************************************************************************)
(* SpecVClock: clocks reachable from VectorClock::new by increment and     *)
(* merge.                                                                  *)
(***************************************************************************)
VClockIdle == vcA = VectorClock_new /\ vcB = VectorClock_new /\ vcC = VectorClock_new

VCBelowMax(vc, p) == (IF p \in DOMAIN vc THEN vc[p] ELSE 0) < MaxCount

VCIncrement ==
  \E p \in VCPeers :
    \/ VCBelowMax(vcA, p) /\ vcA' = VectorClock_increment(vcA, p) /\ UNCHANGED <<vcB, vcC>>
    \/ VCBelowMax(vcB, p) /\ vcB' = VectorClock_increment(vcB, p) /\ UNCHANGED <<vcA, vcC>>
    \/ VCBelowMax(vcC, p) /\ vcC' = VectorClock_increment(vcC, p) /\ UNCHANGED <<vcA, vcB>>

VCMerge ==
  \/ vcA' = VectorClock_merge(vcA, vcB) /\ UNCHANGED <<vcB, vcC>>
  \/ vcB' = VectorClock_merge(vcB, vcC) /\ UNCHANGED <<vcA, vcC>>
  \/ vcC' = VectorClock_merge(vcC, vcA) /\ UNCHANGED <<vcA, vcB>>

(***************************************************************************)
(* SpecMerge: merge_3way applied to entries of one file type.              *)
(***************************************************************************)
MergeClocks == {1, 2}
MergePerms == {0, 1, 2}
MergeChildren == {EmptyMap, [k \in {"foo"} |-> <<11, 1>>]}

MergeEntry(clock, peernum, perm, children) ==
  [FSEntry_new("RegularFile", peernum, clock) EXCEPT
     !.vclock = VectorClock_increment(VectorClock_new, peernum),
     !.perm = perm, !.children = children]

MergeInputs ==
  {MergeEntry(c, p, perm, ch) :
     c \in MergeClocks, p \in Peers, perm \in MergePerms, ch \in MergeChildren}

MergeBases ==
  {[FSEntry_new("RegularFile", 11, 1) EXCEPT !.perm = perm, !.children = ch] :
     perm \in {0, 1}, ch \in MergeChildren}

MergeIdle ==
  /\ mBase = FSEntry_new("RegularFile", 11, 1)
  /\ mFirst = mBase /\ mSecond = mBase /\ mOut = None

MergeApply ==
  /\ mOut = None
  /\ mOut' = <<FSEntry_merge_3way(mBase, mFirst, mSecond),
               FSEntry_merge_3way(mBase, mSecond, mFirst)>>
  /\ UNCHANGED <<mBase, mFirst, mSecond>>

(***************************************************************************)
(* Blobs and digests: src/src/backingstore/blobstorage.rs                  *)
(*                                                                         *)
(* A blob is its content: bytes, or an encoded inode entry. The hash is    *)
(* collision free and never yields HASHZERO, so a digest is the blob it    *)
(* names, tagged apart from HASHZERO.                                      *)
(***************************************************************************)
DataBlob(bytes) == [data |-> bytes, entry |-> None]
EntryBlob(e) == [data |-> <<>>, entry |-> Some(e)]

\* settings.rs HASHZERO
HASHZERO == [zero |-> TRUE, of |-> DataBlob(<<>>)]

\* Blob::hash
Blob_hash(blob) == [zero |-> FALSE, of |-> blob]

\* Blob::len, in the units of the model: an encoded entry counts 1.
Blob_len(blob) == IF blob.entry # None THEN 1 ELSE Len(blob.data)

\* TouchInsert: touched.insert(hash, (timeval, blob.len()))
TouchInsert(touched, hash, t) ==
  [h \in DOMAIN touched \cup {hash} |->
     IF h = hash THEN [time |-> t, size |-> Blob_len(hash.of)] ELSE touched[h]]

(***************************************************************************)
(* The state of one instance: the files and tables under its data          *)
(* directory and the fields of BlobStorage, BackingStore and FS.           *)
(*   disk           digests with a file under blobs/                       *)
(*   nodes          rows of table nodes                                    *)
(*   blobs          rows of table blobs, by hash                           *)
(*   offsets        table peers: cursor per remote peer                    *)
(*   ownfile        the local file nodes/<peerid>, a sequence of NodeInfo  *)
(*   written_blobs, touched_blobs, blob_cache    fields of BlobStorage     *)
(*   node_cache, node_counter                    fields of BackingStore    *)
(*   handles, handle_counter                     fields of FS              *)
(*   spawned        digests with a readahead closure spawned and not yet   *)
(*                  run                                                    *)
(***************************************************************************)
Me == CHOOSE p \in Peers : \A q \in Peers : p <= q

PeerNew ==
  [disk |-> {}, nodes |-> {}, blobs |-> EmptyMap, offsets |-> EmptyMap,
   ownfile |-> <<>>, written_blobs |-> <<>>, touched_blobs |-> EmptyMap,
   blob_cache |-> EmptyMap, node_cache |-> EmptyMap, node_counter |-> 0,
   handles |-> EmptyMap, handle_counter |-> 0, spawned |-> {}]

\* No instance constructed, nothing on the server, time 0.
WorldIdle ==
  /\ inst = [p \in Peers |-> PeerNew]
  /\ remote = {} /\ srvNodes = [p \in Peers |-> <<>>]
  /\ now = [p \in Peers |-> 0]

(***************************************************************************)
(* Table nodes of the catalog: src/src/backingstore/metadatadb.rs          *)
(* A row is [rowid, id, hash, creation, synced]; id is <<peernum, index>>. *)
(***************************************************************************)
\* The rowid SQLite gives a new row: the largest rowid in the table plus one.
NextRowid(rows) ==
  IF rows = {} THEN 1
  ELSE (CHOOSE r \in rows : \A q \in rows : q.rowid <= r.rowid).rowid + 1

NodeRows(nodes, node) == {r \in nodes : r.id = node}

\* ... WHERE peernum=?1 AND id=?2 ORDER BY rowid DESC LIMIT 1
HeadRow(nodes, node) ==
  CHOOSE r \in NodeRows(nodes, node) : \A q \in NodeRows(nodes, node) : q.rowid <= r.rowid

\* MetadataDB::max_node
MetadataDB_max_node(nodes, peernum) ==
  LET ids == {r.id[2] : r \in {q \in nodes : q.id[1] = peernum}}
  IN IF ids = {} THEN 0 ELSE CHOOSE i \in ids : \A j \in ids : j <= i

\* MetadataDB::node_exists
MetadataDB_node_exists(nodes, node) == NodeRows(nodes, node) # {}

\* MetadataDB::node_exists_long
MetadataDB_node_exists_long(nodes, node, hash, creation) ==
  \E r \in nodes : r.id = node /\ r.hash = hash /\ r.creation = creation

\* MetadataDB::get_node: None stands for the EIO of a query without rows.
MetadataDB_get_node(nodes, node) ==
  IF NodeRows(nodes, node) = {} THEN None ELSE Some(HeadRow(nodes, node).hash)

\* MetadataDB::get_earlier_node
MetadataDB_get_earlier_node(nodes, node, maxrowid) ==
  LET below == {r \in NodeRows(nodes, node) : r.rowid < maxrowid}
  IN IF below = {} THEN None
     ELSE LET r == CHOOSE x \in below : \A q \in below : q.rowid <= x.rowid
          IN Some([row |-> r.rowid, hash |-> r.hash])

\* INSERT without the UNIQUE constraint.
InsertNodeRow_nounique(nodes, node, hash, creation) ==
  nodes \cup {[rowid |-> NextRowid(nodes), id |-> node, hash |-> hash,
               creation |-> creation, synced |-> 0]}

\* INSERT INTO nodes ... VALUES (?1, ?2, ?3, ?4, 0) under
\* UNIQUE (peernum, id, hash, creation) ON CONFLICT IGNORE
InsertNodeRow(nodes, node, hash, creation) ==
  IF MetadataDB_node_exists_long(nodes, node, hash, creation) THEN nodes
  ELSE nodes \cup {[rowid |-> NextRowid(nodes), id |-> node, hash |-> hash,
                    creation |-> creation, synced |-> 0]}

\* MetadataDB::set_node
MetadataDB_set_node(nodes, node, hash, creation) ==
  InsertNodeRow(nodes, node, hash, creation)

\* set_node_behind that inserts the new row on top of the head.
MetadataDB_set_node_behind_ontop(nodes, node, hash, creation) ==
  InsertNodeRow(nodes, node, hash, creation)

\* MetadataDB::set_node_behind: one transaction that deletes the head row,
\* inserts the new row and inserts the old head again.
MetadataDB_set_node_behind(nodes, node, hash, creation) ==
  LET head == HeadRow(nodes, node)
      deleted == nodes \ {head}
      inserted == InsertNodeRow(deleted, node, hash, creation)
  IN InsertNodeRow(inserted, node, head.hash, head.creation)

(***************************************************************************)
(* BlobStorage on one instance st: src/src/backingstore/blobstorage.rs     *)
(* Operators return the new instance, or [st, res, ...] when the call has  *)
(* a result. t is timeval() at the call.                                   *)
(***************************************************************************)
\* FSEntry::timeval. The clock of the model counts milliseconds.
FSEntry_timeval(entry) == entry.clock

\* bincode::serialize of an entry and bincode::deserialize of a blob.
Encode(entry) == EntryBlob(entry)
Decode(blob) == blob.entry[1]

\* BlobStorage::store_blob: Blob::store writes the file unless it exists.
BlobStorage_store_blob(st, blob, t) ==
  [st EXCEPT !.disk = @ \cup {Blob_hash(blob)},
             !.written_blobs = Append(@, [hash |-> Blob_hash(blob),
                                          size |-> Blob_len(blob), time |-> t])]

\* BlobStorage::add_blob
BlobStorage_add_blob(st, blob, t) == BlobStorage_store_blob(st, blob, t)

\* BlobStorage::readahead_from_server: a closure is spawned for every digest
\* that is not HASHZERO and has no local file.
BlobStorage_readahead_from_server(st, readahead) ==
  [st EXCEPT !.spawned = @ \cup {readahead[i] : i \in
      {j \in DOMAIN readahead : readahead[j] # HASHZERO /\ readahead[j] \notin st.disk}}]

\* BlobStorage::get_blob as one call. When the file is missing the pull of
\* fetch_from_server succeeds (ok, and the remote holds the file) or fails;
\* the blob read is hash.of.
BlobStorage_get_blob(st, rem, hash, readahead, ok, t) ==
  LET s1 == BlobStorage_readahead_from_server(st, readahead)
      fetched == hash \notin s1.disk /\ ok /\ hash \in rem
      s2 == IF fetched THEN [s1 EXCEPT !.disk = @ \cup {hash}] ELSE s1
  IN IF hash \in s2.disk
     THEN [st |-> [s2 EXCEPT !.touched_blobs = TouchInsert(@, hash, t)], res |-> "Ok"]
     ELSE [st |-> s2, res |-> "EIO"]

\* BlobStorage::read_node
BlobStorage_read_node(st, rem, node, ok, t) ==
  LET hash == MetadataDB_get_node(st.nodes, node)
  IN IF hash = None THEN [st |-> st, res |-> "EIO"]
     ELSE LET g == BlobStorage_get_blob(st, rem, hash[1], <<>>, ok, t)
          IN IF g.res # "Ok" THEN g
             ELSE [st |-> g.st, res |-> "Ok", hash |-> hash[1],
                   entry |-> Decode(hash[1].of)]

\* read_earlier_node that takes the first row below maxrowid, whatever its
\* vector clock.
BlobStorage_read_earlier_node_first(st, rem, node, comparison, maxrowid, ok, t) ==
  LET found == MetadataDB_get_earlier_node(st.nodes, node, maxrowid)
  IN IF found = None THEN [st |-> st, res |-> "EIO"]
     ELSE LET g == BlobStorage_get_blob(st, rem, found[1].hash, <<>>, ok, t)
          IN IF g.res # "Ok" THEN g
             ELSE [st |-> g.st, res |-> "Ok", entry |-> Decode(found[1].hash.of)]

\* BlobStorage::read_earlier_node: walk the rows of the node downwards from
\* maxrowid until one holds an entry that comparison dominates.
RECURSIVE BlobStorage_read_earlier_node(_, _, _, _, _, _, _)
BlobStorage_read_earlier_node(st, rem, node, comparison, maxrowid, ok, t) ==
  LET found == MetadataDB_get_earlier_node(st.nodes, node, maxrowid)
  IN IF found = None THEN [st |-> st, res |-> "EIO"]
     ELSE LET g == BlobStorage_get_blob(st, rem, found[1].hash, <<>>, ok, t)
          IN IF g.res # "Ok" THEN g
             ELSE IF FSEntry_cmp_vclock(comparison, Decode(found[1].hash.of)) = "Greater"
                  THEN [st |-> g.st, res |-> "Ok", entry |-> Decode(found[1].hash.of)]
                  ELSE BlobStorage_read_earlier_node(g.st, rem, node, comparison,
                                                     found[1].row, ok, t)

\* save_node after read_node returned currnode: the match on cmp_vclock.
\* The first maxrowid, i64::MAX, is any rowid above the table's.
SaveNodeApply(st, rem, node, entry, currnode, ok, t) ==
  LET hash == Blob_hash(Encode(entry))
      ord == FSEntry_cmp_vclock(entry, currnode)
  IN IF ord \in {"Greater", "Equal"}
     THEN [st |-> [st EXCEPT !.nodes =
                     MetadataDB_set_node(@, node, hash, FSEntry_timeval(entry))],
           res |-> "Ok"]
     ELSE IF ord = "Less"
     THEN [st |-> [st EXCEPT !.nodes =
                     MetadataDB_set_node_behind(@, node, hash, FSEntry_timeval(entry))],
           res |-> "Ok"]
     ELSE LET store(s0, merged) ==
                [st |-> [BlobStorage_add_blob(s0, Encode(merged), t) EXCEPT !.nodes =
                           MetadataDB_set_node(@, node, Blob_hash(Encode(merged)),
                                               FSEntry_timeval(merged))],
                 res |-> "Ok"]
              from(b) ==
                IF b.res # "Ok" THEN [st |-> b.st, res |-> "EIO"]
                ELSE store(b.st, FSEntry_merge_3way(b.entry, entry, currnode))
          IN from(BlobStorage_read_earlier_node(st, rem, node, entry,
                                                NextRowid(st.nodes), ok, t))

\* BlobStorage::save_node as one call.
BlobStorage_save_node(st, rem, node, entry, ok, t) ==
  LET s1 == BlobStorage_add_blob(st, Encode(entry), t)
      hash == Blob_hash(Encode(entry))
  IN IF MetadataDB_node_exists_long(s1.nodes, node, hash, FSEntry_timeval(entry))
     THEN [st |-> s1, res |-> "Ok"]
     ELSE IF ~MetadataDB_node_exists(s1.nodes, node)
     THEN [st |-> [s1 EXCEPT !.nodes =
                     MetadataDB_set_node(@, node, hash, FSEntry_timeval(entry))],
           res |-> "Ok"]
     ELSE LET against(r) ==
                IF r.res # "Ok" THEN [st |-> r.st, res |-> "EIO"]
                ELSE SaveNodeApply(r.st, rem, node, entry, r.entry, ok, t)
          IN against(BlobStorage_read_node(s1, rem, node, ok, t))

(***************************************************************************)
(* Table blobs of the catalog: src/src/backingstore/metadatadb.rs          *)
(* blobs maps a hash to its row [synced, present, size, last_use, rowid].  *)
(***************************************************************************)
\* ORDER BY rowid sees only the order of the rowids; the model keeps them as
\* ranks 1..n, so a table has one representation.
Ranked(blobs) ==
  [h \in DOMAIN blobs |->
     [blobs[h] EXCEPT !.rowid =
        Cardinality({g \in DOMAIN blobs : blobs[g].rowid <= blobs[h].rowid})]]

\* The rowid SQLite gives a new row of blobs: the largest rowid plus one.
BlobRowid(blobs) ==
  IF DOMAIN blobs = {} THEN 1
  ELSE blobs[CHOOSE h \in DOMAIN blobs :
               \A g \in DOMAIN blobs : blobs[g].rowid <= blobs[h].rowid].rowid + 1

\* INSERT OR REPLACE without the COALESCE: synced is 0.
ReplaceBlobRow_unsynced(blobs, hash, size, time) ==
  Ranked([h \in DOMAIN blobs \cup {hash} |->
            IF h = hash
            THEN [synced |-> 0, present |-> 1, size |-> size, last_use |-> time,
                  rowid |-> BlobRowid(blobs)]
            ELSE blobs[h]])

\* INSERT OR REPLACE that adds the size to the size of the replaced row.
ReplaceBlobRow_addsize(blobs, hash, size, time) ==
  Ranked([h \in DOMAIN blobs \cup {hash} |->
            IF h = hash
            THEN [synced |-> IF hash \in DOMAIN blobs THEN blobs[hash].synced ELSE 0,
                  present |-> 1,
                  size |-> IF hash \in DOMAIN blobs THEN blobs[hash].size + size ELSE size,
                  last_use |-> time,
                  rowid |-> BlobRowid(blobs)]
            ELSE blobs[h]])

\* INSERT OR REPLACE INTO blobs ... present 1, synced COALESCE(old synced, 0):
\* the replaced row is deleted and the new row takes a fresh rowid.
ReplaceBlobRow(blobs, hash, size, time) ==
  Ranked([h \in DOMAIN blobs \cup {hash} |->
            IF h = hash
            THEN [synced |-> IF hash \in DOMAIN blobs THEN blobs[hash].synced ELSE 0,
                  present |-> 1, size |-> size, last_use |-> time,
                  rowid |-> BlobRowid(blobs)]
            ELSE blobs[h]])

\* MetadataDB::set_blobs
RECURSIVE MetadataDB_set_blobs(_, _)
MetadataDB_set_blobs(blobs, vals) ==
  IF vals = <<>> THEN blobs
  ELSE MetadataDB_set_blobs(
         ReplaceBlobRow(blobs, Head(vals).hash, Head(vals).size, Head(vals).time),
         Tail(vals))

\* MetadataDB::touch_blobs; the HashMap is drained in any order, each hash once.
RECURSIVE MetadataDB_touch_blobs(_, _)
MetadataDB_touch_blobs(blobs, touched) ==
  IF DOMAIN touched = {} THEN blobs
  ELSE LET h == CHOOSE x \in DOMAIN touched : TRUE
       IN MetadataDB_touch_blobs(
            ReplaceBlobRow(blobs, h, touched[h].size, touched[h].time),
            [g \in DOMAIN touched \ {h} |-> touched[g]])

\* MetadataDB::mark_synced_blobs
MetadataDB_mark_synced_blobs(blobs, hashes) ==
  [h \in DOMAIN blobs |-> IF h \in hashes THEN [blobs[h] EXCEPT !.synced = 1] ELSE blobs[h]]

\* MetadataDB::mark_deleted_blobs(vals, true)
MetadataDB_mark_deleted_blobs(blobs, hashes) ==
  [h \in DOMAIN blobs |-> IF h \in hashes THEN [blobs[h] EXCEPT !.present = 0] ELSE blobs[h]]

\* The hashes of set S ordered by a column of their rows, ties by rowid.
RECURSIVE OrderBy(_, _, _)
OrderBy(blobs, S, column) ==
  IF S = {} THEN <<>>
  ELSE LET h == CHOOSE x \in S : \A y \in S :
                  \/ blobs[x][column] < blobs[y][column]
                  \/ /\ blobs[x][column] = blobs[y][column]
                     /\ blobs[x].rowid <= blobs[y].rowid
       IN <<h>> \o OrderBy(blobs, S \ {h}, column)

\* MetadataDB::to_upload
MetadataDB_to_upload(blobs) ==
  Prefix(OrderBy(blobs, {h \in DOMAIN blobs : blobs[h].synced = 0}, "rowid"), TO_UPLOAD)

\* The WHERE clause of to_delete without the flag synced.
Evictable_anysynced(blobs, h) ==
  blobs[h].present = 1 /\ blobs[h].size > KEEP_UP_TO_SIZE

\* The WHERE clause of MetadataDB::to_delete
Evictable(blobs, h) ==
  blobs[h].synced = 1 /\ blobs[h].present = 1 /\ blobs[h].size > KEEP_UP_TO_SIZE

\* to_delete() ordered by rowid instead of last_use.
MetadataDB_to_delete_byrowid(blobs) ==
  Prefix(OrderBy(blobs, {h \in DOMAIN blobs : Evictable(blobs, h)}, "rowid"), TO_DELETE)

\* MetadataDB::to_delete
MetadataDB_to_delete(blobs) ==
  Prefix(OrderBy(blobs, {h \in DOMAIN blobs : Evictable(blobs, h)}, "last_use"), TO_DELETE)

\* MetadataDB::localbytes
RECURSIVE SumSizes(_, _)
SumSizes(blobs, S) ==
  IF S = {} THEN 0
  ELSE LET h == CHOOSE x \in S : TRUE IN blobs[h].size + SumSizes(blobs, S \ {h})

MetadataDB_localbytes(blobs) ==
  SumSizes(blobs, {h \in DOMAIN blobs : blobs[h].present = 1})

\* Rows of a set in ascending rowid order.
RECURSIVE RowsByRowid(_)
RowsByRowid(rows) ==
  IF rows = {} THEN <<>>
  ELSE LET r == CHOOSE x \in rows : \A y \in rows : x.rowid <= y.rowid
       IN <<r>> \o RowsByRowid(rows \ {r})

\* to_upload_nodes without the join on the blobs table.
MetadataDB_to_upload_nodes_nojoin(nodes, blobs) ==
  Prefix(RowsByRowid({r \in nodes : r.synced = 0}), TO_UPLOAD_NODES)

\* MetadataDB::to_upload_nodes
MetadataDB_to_upload_nodes(nodes, blobs) ==
  Prefix(RowsByRowid({r \in nodes : /\ r.synced = 0
                                    /\ r.hash \in DOMAIN blobs
                                    /\ blobs[r.hash].synced = 1}),
         TO_UPLOAD_NODES)

\* MetadataDB::mark_synced_nodes
MetadataDB_mark_synced_nodes(nodes, rowids) ==
  {IF r.rowid \in rowids THEN [r EXCEPT !.synced = 1] ELSE r : r \in nodes}

\* MetadataDB::get_peer and MetadataDB::set_peer
MetadataDB_get_peer(offsets, id) == IF id \in DOMAIN offsets THEN offsets[id] ELSE 0
MetadataDB_set_peer(offsets, id, offset) ==
  [k \in DOMAIN offsets \cup {id} |-> IF k = id THEN offset ELSE offsets[k]]

(***************************************************************************)
(* The background tasks of BlobStorage, each as one run.                   *)
(***************************************************************************)
\* BlobStorage::do_save
BlobStorage_do_save(st) ==
  [st EXCEPT !.blobs = MetadataDB_set_blobs(@, st.written_blobs),
             !.written_blobs = <<>>]

\* BlobStorage::do_uploads with a transport that works: batch after batch is
\* pushed and marked; upload_to_server skips files that are not on disk.
RECURSIVE UploadLoop(_, _)
UploadLoop(st, rem) ==
  LET hashes == MetadataDB_to_upload(st.blobs)
  IN IF hashes = <<>> THEN [st |-> st, rem |-> rem, res |-> "Ok"]
     ELSE UploadLoop(
            [st EXCEPT !.blobs = MetadataDB_mark_synced_blobs(@, Range(hashes))],
            rem \cup (Range(hashes) \cap st.disk))

\* do_uploads that marks every unsynced row and pushes nothing.
BlobStorage_do_uploads_marksonly(st, rem, ok) ==
  [st |-> [st EXCEPT !.blobs = MetadataDB_mark_synced_blobs(@, DOMAIN @)],
   rem |-> rem, res |-> "Ok"]

\* BlobStorage::do_uploads; ok is the outcome of the transport.
BlobStorage_do_uploads(st, rem, ok) ==
  IF ok \/ MetadataDB_to_upload(st.blobs) = <<>> THEN UploadLoop(st, rem)
  ELSE [st |-> st, rem |-> rem, res |-> "EIO"]

\* A line of a nodes file: the NodeInfo of a row.
NodeInfo(r) == [id |-> r.id, hash |-> r.hash, creation |-> r.creation]

\* BlobStorage::do_uploads_nodes, the loop: rows are appended to the local
\* file and marked synced.
RECURSIVE UploadNodesLoop(_)
UploadNodesLoop(st) ==
  LET rows == MetadataDB_to_upload_nodes(st.nodes, st.blobs)
  IN IF rows = <<>> THEN st
     ELSE UploadNodesLoop(
            [st EXCEPT !.ownfile = @ \o [i \in DOMAIN rows |-> NodeInfo(rows[i])],
                       !.nodes = MetadataDB_mark_synced_nodes(
                                   @, {rows[i].rowid : i \in DOMAIN rows})])

\* BlobStorage::do_uploads_nodes: when something was written the local file is
\* pushed to the server; ok is the outcome of that push. srv is the server's
\* copy of the file.
BlobStorage_do_uploads_nodes(st, srv, ok) ==
  LET s1 == UploadNodesLoop(st)
      written == MetadataDB_to_upload_nodes(st.nodes, st.blobs) # <<>>
  IN [st |-> s1,
      srv |-> IF written /\ ok THEN s1.ownfile ELSE srv,
      res |-> IF written /\ ~ok THEN "Err" ELSE "Ok"]

\* do_downloads_nodes, the lines of one peer's file from the cursor on: the
\* blob of the line is read, its entry saved, the cursor stored. An Err of
\* get_blob or save_node is unwrapped: the run panics. The cursor counts
\* lines (every line has the same number of bytes).
RECURSIVE ApplyLines(_, _, _, _, _)
ApplyLines(st, rem, peernum, file, t) ==
  LET offset == MetadataDB_get_peer(st.offsets, peernum)
  IN IF offset >= Len(file) THEN [st |-> st, res |-> "Ok"]
     ELSE LET line == file[offset + 1]
              saved(sv) ==
                IF sv.res # "Ok" THEN [st |-> sv.st, res |-> "panic"]
                ELSE ApplyLines(
                       [sv.st EXCEPT !.offsets =
                          MetadataDB_set_peer(@, peernum, offset + 1)],
                       rem, peernum, file, t)
              got(g) ==
                IF g.res # "Ok" THEN [st |-> g.st, res |-> "panic"]
                ELSE saved(BlobStorage_save_node(g.st, rem, line.id,
                                                 Decode(line.hash.of), TRUE, t))
          IN got(BlobStorage_get_blob(st, rem, line.hash, <<>>, TRUE, t))

RECURSIVE ApplyFiles(_, _, _, _, _)
ApplyFiles(st, rem, files, todo, t) ==
  IF todo = {} THEN [st |-> st, res |-> "Ok"]
  ELSE LET q == CHOOSE x \in todo : \A y \in todo : x <= y
           applied(a) ==
             IF a.res # "Ok" THEN a ELSE ApplyFiles(a.st, rem, files, todo \ {q}, t)
       IN applied(ApplyLines(st, rem, q, files[q], t))

\* BlobStorage::do_downloads_nodes of instance peernum; ok is the outcome of
\* the transport pull of the nodes directory, files the server's nodes files.
BlobStorage_do_downloads_nodes(st, rem, files, peernum, ok, t) ==
  IF ~ok THEN [st |-> st, res |-> "Err"]
  ELSE ApplyFiles(st, rem, files, {q \in DOMAIN files : q # peernum /\ files[q] # <<>>}, t)

\* do_removals, one pass over a candidate list: each file is unlinked (or is
\* already gone) and counted until the reclaim target is met.
RECURSIVE RemovePass(_, _, _, _)
RemovePass(cands, deleted, deleted_bytes, bytes_to_delete) ==
  IF cands = <<>> THEN [deleted |-> deleted, deleted_bytes |-> deleted_bytes]
  ELSE LET bytes == deleted_bytes + Head(cands).size
       IN IF bytes >= bytes_to_delete
          THEN [deleted |-> deleted \cup {Head(cands).hash}, deleted_bytes |-> bytes]
          ELSE RemovePass(Tail(cands), deleted \cup {Head(cands).hash}, bytes,
                          bytes_to_delete)

\* A loop that unlinks the first file of the first to_delete() list only.
RemoveLoop_onefile(st, deleted_bytes, bytes_to_delete) ==
  LET hashes_to_delete == MetadataDB_to_delete(st.blobs)
  IN IF hashes_to_delete = <<>> THEN st
     ELSE [st EXCEPT !.disk = @ \ {hashes_to_delete[1]},
                     !.blobs = MetadataDB_mark_deleted_blobs(@, {hashes_to_delete[1]})]

\* do_removals, the loop over to_delete() lists.
RECURSIVE RemoveLoop(_, _, _)
RemoveLoop(st, deleted_bytes, bytes_to_delete) ==
  LET hashes_to_delete == MetadataDB_to_delete(st.blobs)
  IN IF hashes_to_delete = <<>> THEN st
     ELSE LET cands == [i \in DOMAIN hashes_to_delete |->
                          [hash |-> hashes_to_delete[i],
                           size |-> st.blobs[hashes_to_delete[i]].size]]
              pass == RemovePass(cands, {}, deleted_bytes, bytes_to_delete)
              s1 == [st EXCEPT !.disk = @ \ pass.deleted,
                               !.blobs = MetadataDB_mark_deleted_blobs(@, pass.deleted)]
          IN IF pass.deleted_bytes >= bytes_to_delete THEN s1
             ELSE RemoveLoop(s1, pass.deleted_bytes, bytes_to_delete)

\* do_removals, its first block: touched_blobs is drained into the catalog.
TouchFlushed(st) ==
  [st EXCEPT !.blobs = MetadataDB_touch_blobs(@, st.touched_blobs),
             !.touched_blobs = EmptyMap]

\* BlobStorage::do_removals
BlobStorage_do_removals(st) ==
  LET s1 == TouchFlushed(st)
      localbytes == MetadataDB_localbytes(s1.blobs)
  IN IF localbytes > maxbytes THEN RemoveLoop(s1, 0, localbytes - maxbytes) ELSE s1

\* BlobStorage::sync_node: the cached blocks of the node are stored; stored
\* maps each flushed block index to its hash.
RECURSIVE StoreBlocks(_, _, _, _)
StoreBlocks(st, blocks, stored, t) ==
  IF DOMAIN blocks = {} THEN [st |-> st, stored |-> stored]
  ELSE LET i == CHOOSE x \in DOMAIN blocks : TRUE
       IN StoreBlocks(BlobStorage_store_blob(st, DataBlob(blocks[i]), t),
                      [j \in DOMAIN blocks \ {i} |-> blocks[j]],
                      [j \in DOMAIN stored \cup {i} |->
                         IF j = i THEN Blob_hash(DataBlob(blocks[i])) ELSE stored[j]],
                      t)

\* sync_node without the removal of the node's cached blocks.
BlobStorage_sync_node_keepcache(st, node, t) ==
  IF node \in DOMAIN st.blob_cache
  THEN StoreBlocks(st, st.blob_cache[node], EmptyMap, t)
  ELSE [st |-> st, stored |-> EmptyMap]

BlobStorage_sync_node(st, node, t) ==
  IF node \in DOMAIN st.blob_cache
  THEN StoreBlocks([st EXCEPT !.blob_cache = [n \in DOMAIN @ \ {node} |-> @[n]]],
                   st.blob_cache[node], EmptyMap, t)
  ELSE [st |-> st, stored |-> EmptyMap]

(***************************************************************************)
(* BackingStore and FS on one instance: src/src/backingstore/mod.rs,       *)
(* src/src/filesystem/mod.rs                                               *)
(***************************************************************************)
\* BackingStore::new on a data directory: node_counter from the catalog and
\* the one-byte zero blob added.
BackingStore_new(st, peernum, t) ==
  BlobStorage_add_blob(
    [st EXCEPT !.node_counter = MetadataDB_max_node(st.nodes, peernum) + 1],
    DataBlob(<<0>>), t)

\* BackingStore::blob_zero
BackingStore_blob_zero == Blob_hash(DataBlob(<<0>>))

\* BackingStore::get_node: the cached entry, or the head of the log.
BackingStore_get_node(st, rem, node, ok, t) ==
  IF node \in DOMAIN st.node_cache
  THEN [st |-> st, res |-> "Ok", entry |-> st.node_cache[node]]
  ELSE BlobStorage_read_node(st, rem, node, ok, t)

\* BackingStore::save_node_cached
BackingStore_save_node_cached(st, node, entry) ==
  [st EXCEPT !.node_cache =
     [n \in DOMAIN @ \cup {node} |-> IF n = node THEN entry ELSE @[n]]]

\* The root node and the root entry FS::new saves (uid and gid of the user
\* running the instance, here 0).
RootNode == <<0, 0>>
RootEntry(peernum, t) == [FSEntry_new("Directory", peernum, t) EXCEPT !.perm = 493]

\* FS::new
FS_new(st, rem, peernum, t) ==
  IF MetadataDB_node_exists(st.nodes, RootNode) \/ RootNode \in DOMAIN st.node_cache
  THEN st
  ELSE BlobStorage_save_node(st, rem, RootNode, RootEntry(peernum, t), TRUE, t).st

\* FSEntry::add_child
FSEntry_add_child(entry, name, child) ==
  [entry EXCEPT !.children =
     [n \in DOMAIN @ \cup {name} |-> IF n = name THEN child ELSE @[n]]]

\* The closures the handlers pass to FS::modify_node, as data, and a call of
\* one on an entry.
ChmodClosure(mode) == [op |-> "chmod", mode |-> mode]
AddChildClosure(name, child) == [op |-> "add_child", name |-> name, child |-> child]
TruncateClosure(size) == [op |-> "truncate", size |-> size]
RemoveChildClosure(name) == [op |-> "remove_child", name |-> name]
SetxattrClosure(name, create, replace) ==
  [op |-> "setxattr", name |-> name, create |-> create, replace |-> replace]
RemovexattrClosure(name) == [op |-> "removexattr", name |-> name]

\* What the closure returns: the closures of unlink, rename, setxattr and
\* removexattr return a Result of their own.
ClosureResult(closure, entry) ==
  IF closure.op = "remove_child"
  THEN IF closure.name \in DOMAIN entry.children THEN "Ok" ELSE "ENOENT"
  ELSE IF closure.op = "setxattr"
  THEN IF closure.create /\ closure.replace THEN "EINVAL"
       ELSE IF closure.replace /\ closure.name \notin DOMAIN entry.xattrs THEN "ENODATA"
       ELSE IF closure.create /\ closure.name \in DOMAIN entry.xattrs THEN "EEXIST"
       ELSE "Ok"
  ELSE IF closure.op = "removexattr"
  THEN IF closure.name \in DOMAIN entry.xattrs THEN "Ok" ELSE "ENODATA"
  ELSE "Ok"

\* The entry as the closure leaves it.
ClosureCall(closure, entry) ==
  IF closure.op = "chmod" THEN [entry EXCEPT !.perm = closure.mode]
  ELSE IF closure.op = "truncate" THEN [entry EXCEPT !.size = closure.size]
  ELSE IF closure.op = "remove_child"
  THEN [entry EXCEPT !.children = [n \in DOMAIN @ \ {closure.name} |-> @[n]]]
  ELSE IF closure.op = "setxattr"
  THEN IF ClosureResult(closure, entry) # "Ok" THEN entry
       ELSE [entry EXCEPT !.xattrs =
               [n \in DOMAIN @ \cup {closure.name} |->
                  IF n = closure.name THEN <<1>> ELSE @[n]]]
  ELSE IF closure.op = "removexattr"
  THEN [entry EXCEPT !.xattrs = [n \in DOMAIN @ \ {closure.name} |-> @[n]]]
  ELSE FSEntry_add_child(entry, closure.name, closure.child)

\* FS::modify_node after the closure ran, up to the save: the entry it is
\* about to save.
ModifiedEntry(changed, peernum, t) ==
  [changed EXCEPT !.clock = t,
                  !.vclock = VectorClock_increment(@, peernum),
                  !.peernum = peernum]

\* FS::modify_node with a closure that cannot fail.
FS_modify_node(st, rem, peernum, node, cache, closure, ok, t) ==
  LET modify(g) ==
        IF g.res # "Ok" THEN [st |-> g.st, res |-> "EIO"]
        ELSE IF cache
             THEN [st |-> BackingStore_save_node_cached(
                            g.st, node,
                            ModifiedEntry(ClosureCall(closure, g.entry), peernum, t)),
                   res |-> "Ok"]
             ELSE BlobStorage_save_node(
                    g.st, rem, node,
                    ModifiedEntry(ClosureCall(closure, g.entry), peernum, t), ok, t)
  IN modify(BackingStore_get_node(st, rem, node, ok, t))

\* FS::chmod by path
FS_chmod(st, rem, peernum, node, mode, ok, t) ==
  FS_modify_node(st, rem, peernum, node, FALSE, ChmodClosure(mode), ok, t)

\* FSEntry::set_block for every stored block; block i is blocks[i + 1].
SetBlocks(entry, stored) ==
  [entry EXCEPT !.blocks =
     [k \in DOMAIN @ |-> IF k - 1 \in DOMAIN stored THEN stored[k - 1] ELSE @[k]]]

\* BackingStore::sync_one_node; set_block panics on an index past the block
\* list.
BackingStore_sync_one_node(st, rem, node, entry, ok, t) ==
  LET saved(sv, stored) == [st |-> sv.st, res |-> sv.res, stored |-> stored]
      flushed(f) ==
        IF \E i \in DOMAIN f.stored : i >= Len(entry.blocks)
        THEN [st |-> f.st, res |-> "panic", stored |-> f.stored]
        ELSE saved(BlobStorage_save_node(f.st, rem, node, SetBlocks(entry, f.stored),
                                         ok, t),
                   f.stored)
  IN flushed(BlobStorage_sync_node(st, node, t))

\* BackingStore::sync_node
BackingStore_sync_node(st, rem, node, ok, t) ==
  IF node \in DOMAIN st.node_cache
  THEN LET s1 == [st EXCEPT !.node_cache = [n \in DOMAIN @ \ {node} |-> @[n]]]
           synced(o) ==
             IF o.res # "Ok" THEN o
             ELSE [st |-> BlobStorage_do_save(o.st), res |-> "Ok", stored |-> o.stored]
       IN synced(BackingStore_sync_one_node(s1, rem, node, st.node_cache[node], ok, t))
  ELSE [st |-> BlobStorage_do_save(st), res |-> "Ok", stored |-> EmptyMap]

\* BackingStore::sync_all: the cached entries are drained and synced one by
\* one; the first failure ends the run with the drained entries dropped.
RECURSIVE SyncAllLoop(_, _, _, _, _)
SyncAllLoop(st, rem, cached, ok, t) ==
  IF DOMAIN cached = {} THEN [st |-> BlobStorage_do_save(st), res |-> "Ok"]
  ELSE LET node == CHOOSE n \in DOMAIN cached : TRUE
           synced(o) ==
             IF o.res # "Ok" THEN [st |-> o.st, res |-> "Err"]
             ELSE SyncAllLoop(o.st, rem, [n \in DOMAIN cached \ {node} |-> cached[n]],
                              ok, t)
       IN synced(BackingStore_sync_one_node(st, rem, node, cached[node], ok, t))

BackingStore_sync_all(st, rem, ok, t) ==
  SyncAllLoop([st EXCEPT !.node_cache = EmptyMap], rem, st.node_cache, ok, t)

\* The instance after the process ended and `run` constructed BackingStore
\* and FS again on the same data directory.
Restarted_freshcatalog(st, rem, peernum, t) ==
  FS_new(BackingStore_new(
           [PeerNew EXCEPT !.disk = st.disk, !.nodes = st.nodes,
                           !.offsets = st.offsets, !.ownfile = st.ownfile],
           peernum, t),
         rem, peernum, t)

Restarted(st, rem, peernum, t) ==
  FS_new(BackingStore_new(
           [PeerNew EXCEPT !.disk = st.disk, !.nodes = st.nodes, !.blobs = st.blobs,
                           !.offsets = st.offsets, !.ownfile = st.ownfile],
           peernum, t),
         rem, peernum, t)

(***************************************************************************)
(* File data: Blob, BlobStorage::read and write, FSEntry::read and write.  *)
(* The content of a data blob is a sequence of bytes; block i of an entry  *)
(* is blocks[i + 1]; blob_cache maps a node to its cached blocks by index. *)
(***************************************************************************)
\* Blob::read; None stands for the panic of assert!(offset < self.data.len()).
Blob_read(bytes, offset, count) ==
  IF offset >= Len(bytes) THEN None
  ELSE Some(SubSeq(bytes, offset + 1, MinOf(offset + count, Len(bytes))))

\* Blob::write
Blob_write(bytes, offset, new) ==
  LET end == offset + Len(new)
  IN [k \in 1..MaxOf(Len(bytes), end) |->
        IF k > offset /\ k <= end THEN new[k - offset]
        ELSE IF k <= Len(bytes) THEN bytes[k] ELSE 0]

\* The result of BlobStorage::read from what Blob::read returned.
ReadResult(st, r) ==
  IF r = None THEN [st |-> st, res |-> "panic", bytes |-> <<>>]
  ELSE [st |-> st, res |-> "Ok", bytes |-> r[1]]

\* BlobStorage::read
BlobStorage_read(st, rem, node, block, hash, offset, count, readahead, ok, t) ==
  IF node \in DOMAIN st.blob_cache /\ block \in DOMAIN st.blob_cache[node]
  THEN ReadResult(st, Blob_read(st.blob_cache[node][block], offset, count))
  ELSE LET g == BlobStorage_get_blob(st, rem, hash, readahead, ok, t)
       IN IF g.res # "Ok" THEN [st |-> g.st, res |-> "EIO", bytes |-> <<>>]
          ELSE ReadResult(g.st, Blob_read(hash.of.data, offset, count))

\* blob_cache.entry(node).or_insert(HashMap::new()).insert(block, blob)
CacheInsert(cache, node, block, bytes) ==
  LET old == IF node \in DOMAIN cache THEN cache[node] ELSE EmptyMap
  IN [n \in DOMAIN cache \cup {node} |->
        IF n = node
        THEN [b \in DOMAIN old \cup {block} |-> IF b = block THEN bytes ELSE old[b]]
        ELSE cache[n]]

\* BlobStorage::write
BlobStorage_write(st, rem, node, block, hash, offset, new, readahead, ok, t) ==
  IF node \in DOMAIN st.blob_cache /\ block \in DOMAIN st.blob_cache[node]
  THEN [st |-> [st EXCEPT !.blob_cache =
                  CacheInsert(@, node, block,
                              Blob_write(st.blob_cache[node][block], offset, new))],
        res |-> "Ok"]
  ELSE LET g == BlobStorage_get_blob(st, rem, hash, readahead, ok, t)
       IN IF g.res # "Ok" THEN [st |-> g.st, res |-> "EIO"]
          ELSE [st |-> [g.st EXCEPT !.blob_cache =
                          CacheInsert(@, node, block,
                                      Blob_write(hash.of.data, offset, new))],
                res |-> "Ok"]

\* &self.blocks[i+1..cmp::min(i+1+READAHEAD, self.blocks.len())]
ReadaheadOf(blocks, i) == SubSeq(blocks, i + 2, MinOf(i + 1 + READAHEAD, Len(blocks)))

\* FSEntry::write, the loop over the blocks from block i on.
RECURSIVE WriteBlocks(_, _, _, _, _, _, _, _, _)
WriteBlocks(st, rem, entry, node, start, new, i, ok, t) ==
  LET end == start + Len(new)
      bstart == MaxOf(start, i * BLKSIZE)
      bend == MinOf(end, (i + 1) * BLKSIZE)
  IN IF i >= (end + BLKSIZE - 1) \div BLKSIZE THEN [st |-> st, res |-> "Ok"]
     ELSE LET w == BlobStorage_write(st, rem, node, i, entry.blocks[i + 1],
                                     bstart - i * BLKSIZE,
                                     SubSeq(new, bstart - start + 1, bend - start),
                                     ReadaheadOf(entry.blocks, i), ok, t)
          IN IF w.res # "Ok" THEN w
             ELSE WriteBlocks(w.st, rem, entry, node, start, new, i + 1, ok, t)

\* FSEntry::write: the entry keeps its new size and block list when a block
\* write fails; mtime is set when all succeeded.
FSEntry_write(st, rem, entry, node, offset, new, ok, t) ==
  LET size == MaxOf(entry.size, offset + Len(new))
      needed == (size + BLKSIZE - 1) \div BLKSIZE
      blocks == IF needed > Len(entry.blocks)
                THEN [k \in 1..needed |-> IF k <= Len(entry.blocks) THEN entry.blocks[k]
                                          ELSE BackingStore_blob_zero]
                ELSE entry.blocks
      e1 == [entry EXCEPT !.size = size, !.blocks = blocks]
      done(w) == [st |-> w.st, res |-> w.res,
                  entry |-> IF w.res = "Ok" THEN [e1 EXCEPT !.mtime = t] ELSE e1]
  IN done(WriteBlocks(st, rem, e1, node, offset, new, offset \div BLKSIZE, ok, t))

\* FSEntry::read, the loop over the blocks from block i on; out is the data
\* copied so far. Indexing past the block list panics, and so does
\* copy_from_slice when the block returned fewer bytes than asked.
RECURSIVE ReadBlocks(_, _, _, _, _, _, _, _, _, _)
ReadBlocks(st, rem, entry, node, start, end, i, out, ok, t) ==
  LET bstart == MaxOf(start, i * BLKSIZE)
      bend == MinOf(end, (i + 1) * BLKSIZE)
  IN IF i >= (end + BLKSIZE - 1) \div BLKSIZE
     THEN [st |-> st, res |-> "Ok", bytes |-> out]
     ELSE IF i + 1 > Len(entry.blocks) THEN [st |-> st, res |-> "panic", bytes |-> <<>>]
     ELSE LET r == BlobStorage_read(st, rem, node, i, entry.blocks[i + 1],
                                    bstart - i * BLKSIZE, bend - bstart,
                                    ReadaheadOf(entry.blocks, i), ok, t)
          IN IF r.res # "Ok" THEN r
             ELSE IF Len(r.bytes) # bend - bstart
                  THEN [st |-> r.st, res |-> "panic", bytes |-> <<>>]
                  ELSE ReadBlocks(r.st, rem, entry, node, start, end, i + 1,
                                  out \o r.bytes, ok, t)

\* FSEntry::read
FSEntry_read(st, rem, entry, node, offset, count, ok, t) ==
  IF offset >= entry.size THEN [st |-> st, res |-> "Ok", bytes |-> <<>>]
  ELSE ReadBlocks(st, rem, entry, node, offset, MinOf(offset + count, entry.size),
                  offset \div BLKSIZE, <<>>, ok, t)

(***************************************************************************)
(* FS handlers on files: src/src/filesystem/mod.rs. A path has one name    *)
(* below the root.                                                         *)
(***************************************************************************)
\* FS::find_node of the path /name
FS_find_node(st, rem, name, ok, t) ==
  LET lookup(g) ==
        IF g.res # "Ok" THEN [st |-> g.st, res |-> "EIO"]
        ELSE IF name \notin DOMAIN g.entry.children
             THEN [st |-> g.st, res |-> "ENOENT"]
             ELSE [st |-> g.st, res |-> "Ok", node |-> g.entry.children[name][1]]
  IN lookup(BackingStore_get_node(st, rem, RootNode, ok, t))

\* FS::create_handle; the handle made is the new handle_counter.
FS_create_handle(st, node) ==
  [st EXCEPT !.handle_counter = @ + 1,
             !.handles = [h \in DOMAIN @ \cup {st.handle_counter + 1} |->
                            IF h = st.handle_counter + 1 THEN node ELSE @[h]]]

\* BackingStore::create_node
BackingStore_create_node(st, rem, peernum, entry, ok, t) ==
  LET node == <<peernum, st.node_counter + 1>>
      created(sv) == [st |-> sv.st, res |-> sv.res, node |-> node]
  IN created(BlobStorage_save_node([st EXCEPT !.node_counter = @ + 1], rem, node,
                                   entry, ok, t))

\* FS::create of /name
FS_create(st, rem, peernum, name, mode, ok, t) ==
  LET link(c) ==
        IF c.res # "Ok" THEN [st |-> c.st, res |-> "EIO"]
        ELSE FS_modify_node(FS_create_handle(c.st, c.node), rem, peernum, RootNode,
                            FALSE, AddChildClosure(name, <<c.node, "RegularFile">>),
                            ok, t)
      under(g) ==
        IF g.res # "Ok" THEN [st |-> g.st, res |-> "EIO"]
        ELSE link(BackingStore_create_node(
                    g.st, rem, peernum,
                    [FSEntry_new("RegularFile", peernum, t) EXCEPT
                       !.perm = mode, !.gid = g.entry.gid, !.uid = g.entry.uid],
                    ok, t))
  IN under(BackingStore_get_node(st, rem, RootNode, ok, t))

\* FS::delete_handle, which FS::release calls.
FS_delete_handle(st, rem, handle, ok, t) ==
  IF handle \notin DOMAIN st.handles THEN [st |-> st, res |-> "Ok", stored |-> EmptyMap]
  ELSE BackingStore_sync_node(
         [st EXCEPT !.handles = [h \in DOMAIN @ \ {handle} |-> @[h]]],
         rem, st.handles[handle], ok, t)

\* FS::chmod of /name
FS_chmod_path(st, rem, peernum, name, mode, ok, t) ==
  LET on(f) ==
        IF f.res # "Ok" THEN f ELSE FS_chmod(f.st, rem, peernum, f.node, mode, ok, t)
  IN on(FS_find_node(st, rem, name, ok, t))

\* FS::truncate with a file handle: modify_path_optional_handle takes
\* modify_handle with cache = false; the closure sets entry.size.
FS_truncate(st, rem, peernum, handle, size, ok, t) ==
  IF handle \notin DOMAIN st.handles THEN [st |-> st, res |-> "EBADF"]
  ELSE FS_modify_node(st, rem, peernum, st.handles[handle], FALSE,
                      TruncateClosure(size), ok, t)

\* FS::write: modify_handle with cache = true; the entry is cached whatever
\* FSEntry::write returned.
FS_write(st, rem, peernum, handle, offset, new, ok, t) ==
  IF handle \notin DOMAIN st.handles THEN [st |-> st, res |-> "EBADF"]
  ELSE LET node == st.handles[handle]
           save(w) ==
             [st |-> BackingStore_save_node_cached(
                       w.st, node, ModifiedEntry(w.entry, peernum, t)),
              res |-> w.res]
           into(g) ==
             IF g.res # "Ok" THEN [st |-> g.st, res |-> "EIO"]
             ELSE save(FSEntry_write(g.st, rem, g.entry, node, offset, new, ok, t))
       IN into(BackingStore_get_node(st, rem, node, ok, t))

\* FS::read
FS_read(st, rem, handle, offset, count, ok, t) ==
  IF handle \notin DOMAIN st.handles THEN [st |-> st, res |-> "EBADF", bytes |-> <<>>]
  ELSE LET node == st.handles[handle]
           from(g) ==
             IF g.res # "Ok" THEN [st |-> g.st, res |-> "EIO", bytes |-> <<>>]
             ELSE FSEntry_read(g.st, rem, g.entry, node, offset, count, ok, t)
       IN from(BackingStore_get_node(st, rem, node, ok, t))

\* The closure readahead_from_server spawned for a digest, as one run: the
\* pull, and the touch when the file can be loaded.
BlobStorage_readahead_closure(st, rem, hash, ok, t) ==
  LET s1 == [st EXCEPT !.spawned = @ \ {hash},
                       !.disk = IF ok /\ hash \in rem THEN @ \cup {hash} ELSE @]
  IN IF hash \in s1.disk THEN [s1 EXCEPT !.touched_blobs = TouchInsert(@, hash, t)]
     ELSE s1

(***************************************************************************)
(* SpecPeers: two instances and the server. Instance 11 was made by `init` *)
(* and has run for a while: its root entry is uploaded. Instance 22 is a   *)
(* clone of it. Each action is one handler or one run of a background      *)
(* task. The machines' clocks are not synchronised.                        *)
(***************************************************************************)
\* Local revisions a peer makes at most.
MaxMods == 1
Modes == {1, 2}

PeersIdle == pmods = [p \in Peers |-> 0] /\ pbase = [p \in Peers |-> None]

\* Instance 11 after `init`: BackingStore::new, FS::new; init_server then
\* pushes its blobs directory.
InitedPeer == FS_new(BackingStore_new(PeerNew, Me, 0), {}, Me, 0)

\* Instance 11 mounted after `init`, its root read once (getattr), and one
\* run each of do_removals, do_uploads and do_uploads_nodes.
NodesUploaded(up, srv) ==
  [st |-> BlobStorage_do_uploads_nodes(up.st, srv, TRUE).st, rem |-> up.rem,
   srv |-> BlobStorage_do_uploads_nodes(up.st, srv, TRUE).srv]
Seeded(inited) ==
  NodesUploaded(
    BlobStorage_do_uploads(
      BlobStorage_do_removals(
        BackingStore_get_node(Restarted(inited, inited.disk, Me, 0), inited.disk,
                              RootNode, TRUE, 0).st),
      inited.disk, TRUE),
    <<>>)
SeedPeer == Seeded(InitedPeer)

\* An instance made by `clone` from the server seeded by instance 11.
ClonedPeer(seed, p) ==
  BlobStorage_do_downloads_nodes(BackingStore_new(PeerNew, p, 0), seed.rem,
                                 [q \in Peers |-> IF q = Me THEN seed.st.ownfile
                                                  ELSE <<>>],
                                 p, TRUE, 0).st

\* chmod of the root directory on instance p.
PChmod(p, mode) ==
  /\ pmods[p] < MaxMods
  /\ now' = [now EXCEPT ![p] = @ + 1]
  /\ inst' = [inst EXCEPT ![p] =
                FS_chmod(@, remote, p, RootNode, mode, TRUE, now[p] + 1).st]
  /\ pmods' = [pmods EXCEPT ![p] = @ + 1]
  /\ pbase' = [pbase EXCEPT ![p] =
                 IF @ = None THEN MetadataDB_get_node(inst[p].nodes, RootNode) ELSE @]
  /\ UNCHANGED <<remote, srvNodes>>

\* One run of the sync task.
PSyncAll(p) ==
  /\ inst' = [inst EXCEPT ![p] = BackingStore_sync_all(@, remote, TRUE, now[p]).st]
  /\ UNCHANGED <<remote, srvNodes, now, pmods, pbase>>

\* One run of the upload task.
PUploads(p, ok) ==
  /\ inst' = [inst EXCEPT ![p] = BlobStorage_do_uploads(@, remote, ok).st]
  /\ remote' = BlobStorage_do_uploads(inst[p], remote, ok).rem
  /\ UNCHANGED <<srvNodes, now, pmods, pbase>>

\* One run of the node upload task.
PUploadNodes(p, ok) ==
  /\ inst' = [inst EXCEPT ![p] = BlobStorage_do_uploads_nodes(@, srvNodes[p], ok).st]
  /\ srvNodes' = [srvNodes EXCEPT ![p] =
                    BlobStorage_do_uploads_nodes(inst[p], srvNodes[p], ok).srv]
  /\ UNCHANGED <<remote, now, pmods, pbase>>

\* One run of the node download task.
PDownloadNodes(p, ok) ==
  /\ inst' = [inst EXCEPT ![p] =
                BlobStorage_do_downloads_nodes(@, remote, srvNodes, p, ok, now[p]).st]
  /\ UNCHANGED <<remote, srvNodes, now, pmods, pbase>>

(***************************************************************************)
(* SpecSave: on instance 11 a filesystem worker runs chmod on the root     *)
(* (modify_node, not cached) while the download thread applies the nodes   *)
(* file of instance 22. save_node takes the catalog mutex once per catalog *)
(* call and no other lock; a step of a thread is one such call with the    *)
(* computation around it.                                                  *)
(***************************************************************************)
SaveThreads == {"worker", "download"}

SaveIdle ==
  /\ spc = [t \in SaveThreads |-> "idle"]
  /\ sentry = [t \in SaveThreads |-> None]
  /\ scurr = [t \in SaveThreads |-> None]
  /\ scalls = [t \in SaveThreads |-> <<>>]

\* Instance 22, a clone, after a chmod of the root at time t and one run each
\* of sync_all, do_uploads and do_uploads_nodes; with the server it leaves.
RemotePeer(seed, mode, t) ==
  NodesUploaded(
    BlobStorage_do_uploads(
      BackingStore_sync_all(
        FS_chmod(ClonedPeer(seed, 22), seed.rem, 22, RootNode, mode, TRUE, t).st,
        seed.rem, TRUE, t).st,
      seed.rem, TRUE),
    <<>>)

\* FS::modify_node of the worker up to its call of save_node.
WorkerStart(mode) ==
  /\ spc["worker"] = "idle"
  /\ LET g == BackingStore_get_node(inst[Me], remote, RootNode, TRUE, now[Me])
         e == ModifiedEntry(ClosureCall(ChmodClosure(mode), g.entry), Me, now[Me])
     IN /\ g.res = "Ok"
        /\ inst' = [inst EXCEPT ![Me] = g.st]
        /\ sentry' = [sentry EXCEPT !["worker"] = Some(e)]
        /\ scalls' = [scalls EXCEPT !["worker"] = Append(@, e)]
  /\ spc' = [spc EXCEPT !["worker"] = "begin"]
  /\ UNCHANGED <<remote, srvNodes, now, scurr>>

\* do_downloads_nodes up to its loop: the nodes directory is pulled.
DownloadStart ==
  /\ spc["download"] = "idle"
  /\ spc' = [spc EXCEPT !["download"] = "line"]
  /\ UNCHANGED <<worldVars, sentry, scurr, scalls>>

\* do_downloads_nodes, one line: get_blob and decode, then the call of
\* save_node; the run ends after the last line.
DownloadLine ==
  /\ spc["download"] = "line"
  /\ LET offset == MetadataDB_get_peer(inst[Me].offsets, 22)
     IN IF offset >= Len(srvNodes[22])
        THEN /\ spc' = [spc EXCEPT !["download"] = "done"]
             /\ UNCHANGED <<inst, sentry, scalls>>
        ELSE LET line == srvNodes[22][offset + 1]
                 g == BlobStorage_get_blob(inst[Me], remote, line.hash, <<>>, TRUE,
                                           now[Me])
             IN /\ g.res = "Ok"
                /\ inst' = [inst EXCEPT ![Me] = g.st]
                /\ sentry' = [sentry EXCEPT !["download"] = Some(Decode(line.hash.of))]
                /\ scalls' = [scalls EXCEPT !["download"] =
                                Append(@, Decode(line.hash.of))]
                /\ spc' = [spc EXCEPT !["download"] = "begin"]
  /\ UNCHANGED <<remote, srvNodes, now, scurr>>

\* The position of a thread whose save_node returned, and for the download
\* thread set_peer with the cursor behind the line.
SaveReturned(t, st) ==
  /\ spc' = [spc EXCEPT ![t] = IF t = "download" THEN "line" ELSE "done"]
  /\ inst' = [inst EXCEPT ![Me] =
                IF t = "download"
                THEN [st EXCEPT !.offsets = MetadataDB_set_peer(
                                  @, 22, MetadataDB_get_peer(st.offsets, 22) + 1)]
                ELSE st]

\* save_node: add_blob, then node_exists_long (a duplicate returns).
SaveBegin(t) ==
  /\ spc[t] = "begin"
  /\ LET e == sentry[t][1]
         s1 == BlobStorage_add_blob(inst[Me], Encode(e), now[Me])
     IN IF MetadataDB_node_exists_long(s1.nodes, RootNode, Blob_hash(Encode(e)),
                                       FSEntry_timeval(e))
        THEN SaveReturned(t, s1)
        ELSE /\ inst' = [inst EXCEPT ![Me] = s1]
             /\ spc' = [spc EXCEPT ![t] = "exists"]
  /\ UNCHANGED <<remote, srvNodes, now, sentry, scurr, scalls>>

\* save_node: node_exists (the first row of a node is pushed).
SaveExists(t) ==
  /\ spc[t] = "exists"
  /\ LET e == sentry[t][1]
     IN IF ~MetadataDB_node_exists(inst[Me].nodes, RootNode)
        THEN SaveReturned(t, [inst[Me] EXCEPT !.nodes = MetadataDB_set_node(
                                @, RootNode, Blob_hash(Encode(e)), FSEntry_timeval(e))])
        ELSE /\ spc' = [spc EXCEPT ![t] = "read"]
             /\ UNCHANGED inst
  /\ UNCHANGED <<remote, srvNodes, now, sentry, scurr, scalls>>

\* save_node: read_node returns the head entry.
SaveRead(t) ==
  /\ spc[t] = "read"
  /\ LET r == BlobStorage_read_node(inst[Me], remote, RootNode, TRUE, now[Me])
     IN /\ r.res = "Ok"
        /\ inst' = [inst EXCEPT ![Me] = r.st]
        /\ scurr' = [scurr EXCEPT ![t] = Some(r.entry)]
  /\ spc' = [spc EXCEPT ![t] = "apply"]
  /\ UNCHANGED <<remote, srvNodes, now, sentry, scalls>>

\* save_node: the match on cmp_vclock and the catalog calls of its arm.
SaveApply(t) ==
  /\ spc[t] = "apply"
  /\ SaveReturned(t, SaveNodeApply(inst[Me], remote, RootNode, sentry[t][1],
                                   scurr[t][1], TRUE, now[Me]).st)
  /\ UNCHANGED <<remote, srvNodes, now, sentry, scurr, scalls>>

(***************************************************************************)
(* SpecFetch: the fetch coordinator. Threads run get_blob (and through it  *)
(* fetch_from_server) or the closure readahead_from_server spawns. A step  *)
(* is one critical section of the ongoing shard lock, or one transport     *)
(* call.  A latch is the Arc<Mutex<bool>> a thread created.                *)
(***************************************************************************)
Threads == {1, 2, 3, 4}
FetchDigests == {Blob_hash(DataBlob(<<1, 1>>)), Blob_hash(DataBlob(<<2, 2>>))}

FetchIdle ==
  /\ fpc = [t \in Threads |-> "idle"]
  /\ fhash = [t \in Threads |-> HASHZERO]
  /\ fwait = [t \in Threads |-> None]
  /\ fret = [t \in Threads |-> "none"]
  /\ gret = [t \in Threads |-> "none"]
  /\ ongoing = [d \in FetchDigests |-> None]
  /\ latchVal = [t \in Threads |-> FALSE]
  /\ latchHeld = [t \in Threads |-> FALSE]
  /\ pulls = [d \in FetchDigests |-> 0]
  /\ pullOutcome = [t \in Threads |-> "none"]
  /\ sawMissing = [t \in Threads |-> FALSE]

\* A caller enters get_blob(hash, readahead) with an empty readahead list.
GetBlobStart(t, d) ==
  /\ fpc[t] = "idle"
  /\ fpc' = [fpc EXCEPT ![t] = "check"]
  /\ fhash' = [fhash EXCEPT ![t] = d]
  /\ UNCHANGED <<fwait, fret, gret, ongoing, latchVal, latchHeld, pulls,
                 pullOutcome, sawMissing, worldVars>>

\* A caller enters get_blob(hash, [h]): readahead_from_server spawns thread u
\* for h when h is not HASHZERO and has no local file.
GetBlobStartReadahead(t, d, h, u) ==
  /\ fpc[t] = "idle" /\ fpc[u] = "idle" /\ t # u /\ h # d
  /\ h # HASHZERO /\ h \notin inst[Me].disk
  /\ fpc' = [fpc EXCEPT ![t] = "check", ![u] = "ra_enter"]
  /\ fhash' = [fhash EXCEPT ![t] = d, ![u] = h]
  /\ UNCHANGED <<fwait, fret, gret, ongoing, latchVal, latchHeld, pulls,
                 pullOutcome, sawMissing, worldVars>>

\* get_blob: if !file.exists() { fetch_from_server(hash)? }
GetBlobCheck(t) ==
  /\ fpc[t] = "check"
  /\ fpc' = [fpc EXCEPT ![t] = IF fhash[t] \in inst[Me].disk THEN "load" ELSE "enter"]
  /\ sawMissing' = [sawMissing EXCEPT ![t] = fhash[t] \notin inst[Me].disk]
  /\ UNCHANGED <<fhash, fwait, fret, gret, ongoing, latchVal, latchHeld, pulls,
                 pullOutcome, worldVars>>

\* A slip: the latch is published in ongoing without being locked first.
FetchEnter_latchUnlocked(t) ==
  /\ fpc[t] = "enter"
  /\ IF ongoing[fhash[t]] # None
     THEN /\ fwait' = [fwait EXCEPT ![t] = ongoing[fhash[t]]]
          /\ fpc' = [fpc EXCEPT ![t] = "wait"]
          /\ UNCHANGED <<ongoing, latchVal, latchHeld>>
     ELSE /\ ongoing' = [ongoing EXCEPT ![fhash[t]] = Some(t)]
          /\ latchVal' = [latchVal EXCEPT ![t] = FALSE]
          /\ latchHeld' = [latchHeld EXCEPT ![t] = FALSE]
          /\ fpc' = [fpc EXCEPT ![t] = "pull"]
          /\ UNCHANGED fwait
  /\ UNCHANGED <<fhash, fret, gret, pulls, pullOutcome, sawMissing, worldVars>>

\* fetch_from_server, the first critical section: under the shard's write lock
\* either clone the registered latch, or create a latch, lock it, register it.
FetchEnter(t) ==
  /\ fpc[t] = "enter"
  /\ IF ongoing[fhash[t]] # None
     THEN /\ fwait' = [fwait EXCEPT ![t] = ongoing[fhash[t]]]
          /\ fpc' = [fpc EXCEPT ![t] = "wait"]
          /\ UNCHANGED <<ongoing, latchVal, latchHeld>>
     ELSE /\ ongoing' = [ongoing EXCEPT ![fhash[t]] = Some(t)]
          /\ latchVal' = [latchVal EXCEPT ![t] = FALSE]
          /\ latchHeld' = [latchHeld EXCEPT ![t] = TRUE]
          /\ fpc' = [fpc EXCEPT ![t] = "pull"]
          /\ UNCHANGED fwait
  /\ UNCHANGED <<fhash, fret, gret, pulls, pullOutcome, sawMissing, worldVars>>

\* real_fetch_from_server returns: the transport copied the remote file into
\* the blobs directory (ok) or gave up; *res = outcome.
Pull(t, ok, from, to) ==
  /\ fpc[t] = from
  /\ ok => fhash[t] \in remote
  /\ inst' = IF ok THEN [inst EXCEPT ![Me].disk = @ \cup {fhash[t]}] ELSE inst
  /\ latchVal' = [latchVal EXCEPT ![t] = ok]
  /\ pulls' = [pulls EXCEPT ![fhash[t]] = @ + 1]
  /\ pullOutcome' = [pullOutcome EXCEPT ![t] = IF ok THEN "ok" ELSE "fail"]
  /\ fpc' = [fpc EXCEPT ![t] = to]
  /\ UNCHANGED <<fhash, fwait, fret, gret, ongoing, latchHeld, sawMissing,
                 remote, srvNodes, now>>

FetchPull(t, ok) == Pull(t, ok, "pull", "cleanup")

\* fetch_from_server, the fetching thread's end: remove the entry under the
\* shard lock and return; the latch is released as the guards drop.
FetchCleanup(t) ==
  /\ fpc[t] = "cleanup"
  /\ ongoing' = [ongoing EXCEPT ![fhash[t]] = None]
  /\ latchHeld' = [latchHeld EXCEPT ![t] = FALSE]
  /\ fret' = [fret EXCEPT ![t] = IF latchVal[t] THEN "Ok" ELSE "EIO"]
  /\ gret' = [gret EXCEPT ![t] = IF latchVal[t] THEN "none" ELSE "EIO"]
  /\ fpc' = [fpc EXCEPT ![t] = IF latchVal[t] THEN "load" ELSE "done"]
  /\ UNCHANGED <<fhash, fwait, latchVal, pulls, pullOutcome, sawMissing, worldVars>>

\* fetch_from_server, a waiting thread: mutex.lock() returns once the latch is
\* free; return its value.
FetchWait(t) ==
  /\ fpc[t] = "wait"
  /\ LET o == fwait[t][1]
     IN /\ ~latchHeld[o]
        /\ fret' = [fret EXCEPT ![t] = IF latchVal[o] THEN "Ok" ELSE "EIO"]
        /\ gret' = [gret EXCEPT ![t] = IF latchVal[o] THEN "none" ELSE "EIO"]
        /\ fpc' = [fpc EXCEPT ![t] = IF latchVal[o] THEN "load" ELSE "done"]
  /\ UNCHANGED <<fhash, fwait, ongoing, latchVal, latchHeld, pulls, pullOutcome,
                 sawMissing, worldVars>>

\* get_blob: Blob::load(&file)?, then the touched_blobs insert.
GetBlobLoad(t) ==
  /\ fpc[t] = "load"
  /\ IF fhash[t] \in inst[Me].disk
     THEN /\ inst' = [inst EXCEPT ![Me].touched_blobs = TouchInsert(@, fhash[t], now[Me])]
          /\ gret' = [gret EXCEPT ![t] = "Ok"]
     ELSE /\ gret' = [gret EXCEPT ![t] = "EIO"]
          /\ UNCHANGED inst
  /\ fpc' = [fpc EXCEPT ![t] = "done"]
  /\ UNCHANGED <<fhash, fwait, fret, ongoing, latchVal, latchHeld, pulls,
                 pullOutcome, sawMissing, remote, srvNodes, now>>

\* A slip: the spawned closure pulls without looking at ongoing.
RaEnter_nocheck(u) ==
  /\ fpc[u] = "ra_enter"
  /\ latchVal' = [latchVal EXCEPT ![u] = FALSE]
  /\ latchHeld' = [latchHeld EXCEPT ![u] = TRUE]
  /\ fpc' = [fpc EXCEPT ![u] = "ra_pull"]
  /\ UNCHANGED <<ongoing, fhash, fwait, fret, gret, pulls, pullOutcome, sawMissing,
                 worldVars>>

\* readahead_from_server, the spawned closure's first critical section: do
\* nothing when the digest is registered, else create, lock and register a
\* latch.
RaEnter(u) ==
  /\ fpc[u] = "ra_enter"
  /\ IF ongoing[fhash[u]] # None
     THEN /\ fpc' = [fpc EXCEPT ![u] = "done"]
          /\ UNCHANGED <<ongoing, latchVal, latchHeld>>
     ELSE /\ ongoing' = [ongoing EXCEPT ![fhash[u]] = Some(u)]
          /\ latchVal' = [latchVal EXCEPT ![u] = FALSE]
          /\ latchHeld' = [latchHeld EXCEPT ![u] = TRUE]
          /\ fpc' = [fpc EXCEPT ![u] = "ra_pull"]
  /\ UNCHANGED <<fhash, fwait, fret, gret, pulls, pullOutcome, sawMissing, worldVars>>

RaPull(u, ok) == Pull(u, ok, "ra_pull", "ra_cleanup")

\* readahead closure: remove the entry under the shard lock.
RaCleanup(u) ==
  /\ fpc[u] = "ra_cleanup"
  /\ ongoing' = [ongoing EXCEPT ![fhash[u]] = None]
  /\ fpc' = [fpc EXCEPT ![u] = "ra_touch"]
  /\ UNCHANGED <<fhash, fwait, fret, gret, latchVal, latchHeld, pulls, pullOutcome,
                 sawMissing, worldVars>>

\* readahead closure: touch the file if it can be loaded; the latch guard
\* drops at the end of the block.
RaTouch(u) ==
  /\ fpc[u] = "ra_touch"
  /\ inst' = IF fhash[u] \in inst[Me].disk
              THEN [inst EXCEPT ![Me].touched_blobs = TouchInsert(@, fhash[u], now[Me])]
              ELSE inst
  /\ latchHeld' = [latchHeld EXCEPT ![u] = FALSE]
  /\ fpc' = [fpc EXCEPT ![u] = "done"]
  /\ UNCHANGED <<fhash, fwait, fret, gret, ongoing, latchVal, pulls, pullOutcome,
                 sawMissing, remote, srvNodes, now>>

(***************************************************************************)
(* SpecStore: one mounted instance with the file /f created and its handle *)
(* open. Each action is one handler of FS or one run of a background task  *)
(* or of a spawned readahead closure. The k-th write writes bytes of       *)
(* value k. The clock advances by one with every write and chmod; entry    *)
(* blobs are never evicted (they are smaller than KEEP_UP_TO_SIZE), so     *)
(* only the handlers that move data blocks can meet a failing transport.   *)
(***************************************************************************)
\* Writes and chmods made at most.
MaxOps == 2

FileName == "f"

StoreIdle ==
  /\ sops = 0 /\ wlast = None /\ rd = None /\ lastSync = None /\ evicted = {}

\* Instance 11 mounted with its root uploaded, after create of /f.
StorePeer(seed) == FS_create(seed.st, seed.rem, Me, FileName, 420, TRUE, 0).st

\* The ranges written, <<offset, length>>: the first block, the second block,
\* across the two.
Spans == {<<0, BLKSIZE>>, <<BLKSIZE, BLKSIZE>>, <<1, BLKSIZE>>}

\* The instance after a step; the history keeps of a read, a sync_node and
\* a run of do_removals what the latest step did.
StoreStep(st, read, sync, unlinked) ==
  /\ inst' = [inst EXCEPT ![Me] = st]
  /\ rd' = read /\ lastSync' = sync /\ evicted' = unlinked

SWrite(h, sp, ok) ==
  /\ sops < MaxOps
  /\ \E new \in {[k \in 1..sp[2] |-> sops + 1]} :
       \E w \in {FS_write(inst[Me], remote, Me, h, sp[1], new, ok, now[Me] + 1)} :
         /\ StoreStep(w.st, None, None, {})
         /\ wlast' = IF w.res = "Ok" THEN Some([offset |-> sp[1], bytes |-> new])
                     ELSE None
  /\ now' = [now EXCEPT ![Me] = @ + 1]
  /\ sops' = sops + 1
  /\ UNCHANGED <<remote, srvNodes>>

\* A read of the range of the last write.
SRead(h, ok) ==
  /\ wlast # None
  /\ \E r \in {FS_read(inst[Me], remote, h, wlast[1].offset, Len(wlast[1].bytes), ok,
                       now[Me])} :
       StoreStep(r.st, Some([res |-> r.res, bytes |-> r.bytes]), None, {})
  /\ UNCHANGED <<remote, srvNodes, now, sops, wlast>>

SRelease(h) ==
  \E o \in {FS_delete_handle(inst[Me], remote, h, TRUE, now[Me])} :
     /\ StoreStep(o.st, None,
                  Some([node |-> inst[Me].handles[h], res |-> o.res, stored |-> o.stored]),
                  {})
     /\ UNCHANGED <<remote, srvNodes, now, sops, wlast>>

\* chmod 600 /f
SChmod ==
  /\ sops < MaxOps
  /\ StoreStep(FS_chmod_path(inst[Me], remote, Me, FileName, 384, TRUE, now[Me] + 1).st,
               None, None, {})
  /\ now' = [now EXCEPT ![Me] = @ + 1]
  /\ sops' = sops + 1
  /\ UNCHANGED <<remote, srvNodes, wlast>>

\* truncate of the open file to a size: inside the first block, or one byte
\* into the second or the third block.
TruncateSizes == {1, BLKSIZE + 1, 2 * BLKSIZE + 1}
STruncate(h, size) ==
  /\ sops < MaxOps
  /\ StoreStep(FS_truncate(inst[Me], remote, Me, h, size, TRUE, now[Me] + 1).st,
               None, None, {})
  /\ now' = [now EXCEPT ![Me] = @ + 1]
  /\ sops' = sops + 1
  /\ UNCHANGED <<remote, srvNodes, wlast>>

SSyncAll ==
  /\ StoreStep(BackingStore_sync_all(inst[Me], remote, TRUE, now[Me]).st, None, None, {})
  /\ UNCHANGED <<remote, srvNodes, now, sops, wlast>>

SUploads(ok) ==
  /\ \E up \in {BlobStorage_do_uploads(inst[Me], remote, ok)} :
       StoreStep(up.st, None, None, {}) /\ remote' = up.rem
  /\ UNCHANGED <<srvNodes, now, sops, wlast>>

\* One run of do_removals; the history records every file it unlinked with
\* the flag synced of its row and the length of the blob.
SRemovals ==
  /\ inst' = [inst EXCEPT ![Me] = BlobStorage_do_removals(inst[Me])]
  /\ evicted' = {[hash |-> h, synced |-> inst'[Me].blobs[h].synced,
                  size |-> Blob_len(h.of)] : h \in inst[Me].disk \ inst'[Me].disk}
  /\ rd' = None /\ lastSync' = None
  /\ UNCHANGED <<remote, srvNodes, now, sops, wlast>>

SReadahead(d, ok) ==
  /\ StoreStep(BlobStorage_readahead_closure(inst[Me], remote, d, ok, now[Me]),
               None, None, {})
  /\ UNCHANGED <<remote, srvNodes, now, sops, wlast>>

(***************************************************************************)
(* SpecCatalog: instance 11 alone, its catalog of blobs and the background *)
(* tasks. Each action is one call of BlobStorage or FS or one run of a     *)
(* background task; do_uploads may be stopped after any batch; the process *)
(* may be killed between two calls and started again.                      *)
(***************************************************************************)
\* Blobs already written and saved when the model starts, at most.
MaxPreload == 9
\* Calls that read the clock (add_blob, get_blob, chmod, a start), at most.
MaxCalls == 3
\* Batches of do_uploads the transport carries before it fails, at most.
MaxBatches == 4

CatalogIdle == clast = None

\* The bytes handed to add_blob: contents 1 and 2 are two bytes long, the
\* preloaded ones a single byte.
Content(k) == [i \in 1..(IF k > 2 THEN 1 ELSE 2) |-> k]
Digest(k) == Blob_hash(DataBlob(Content(k)))

\* add_blob of n contents, one after the other.
RECURSIVE AddAll(_, _, _)
AddAll(st, n, t) ==
  IF n = 0 THEN st
  ELSE BlobStorage_add_blob(AddAll(st, n - 1, t), DataBlob(Content(2 + n)), t)

\* Instance 11 with its root uploaded, after n calls of add_blob and a run
\* of do_save.
CatalogPeer(seed, n) == BlobStorage_do_save(AddAll(seed.st, n, 0))

\* BlobStorage::do_uploads with a transport that carries n batches and then
\* fails: the `?` on upload_to_server returns before mark_synced_blobs.
RECURSIVE UploadBatches(_, _, _)
UploadBatches(st, rem, n) ==
  LET hashes == MetadataDB_to_upload(st.blobs)
  IN IF hashes = <<>> THEN [st |-> st, rem |-> rem, res |-> "Ok"]
     ELSE IF n = 0 THEN [st |-> st, rem |-> rem, res |-> "EIO"]
     ELSE UploadBatches(
            [st EXCEPT !.blobs = MetadataDB_mark_synced_blobs(@, Range(hashes))],
            rem \cup (Range(hashes) \cap st.disk), n - 1)

\* The instance after a step, with the history of the step; the instance
\* before the step is kept for the runs of do_save and do_removals.
CatalogStep(op, arg, st, res) ==
  /\ inst' = [inst EXCEPT ![Me] = st]
  /\ clast' = Some([op |-> op, arg |-> arg, res |-> res,
                    pre |-> IF op \in {"do_save", "do_removals", "restart"} THEN Some(inst[Me])
                            ELSE None])

Tick == now' = [now EXCEPT ![Me] = @ + 1]

CAdd(k) ==
  /\ now[Me] < MaxCalls
  /\ CatalogStep("add_blob", Digest(k),
                 BlobStorage_add_blob(inst[Me], DataBlob(Content(k)), now[Me] + 1),
                 Digest(k))
  /\ Tick
  /\ UNCHANGED <<remote, srvNodes>>

\* get_blob of a digest that is on local disk or on the server.
CRead(k) ==
  /\ now[Me] < MaxCalls
  /\ Digest(k) \in inst[Me].disk \cup remote
  /\ \E g \in {BlobStorage_get_blob(inst[Me], remote, Digest(k), <<>>, TRUE,
                                    now[Me] + 1)} :
       CatalogStep("get_blob", Digest(k), g.st, g.res)
  /\ Tick
  /\ UNCHANGED <<remote, srvNodes>>

\* chmod 700 of the root directory: modify_node and save_node.
CChmod ==
  /\ now[Me] < MaxCalls
  /\ \E c \in {FS_chmod(inst[Me], remote, Me, RootNode, 448, TRUE, now[Me] + 1)} :
       CatalogStep("chmod", None, c.st, c.res)
  /\ Tick
  /\ UNCHANGED <<remote, srvNodes>>

CSave ==
  /\ CatalogStep("do_save", None, BlobStorage_do_save(inst[Me]), "Ok")
  /\ UNCHANGED <<remote, srvNodes, now>>

CUploads(n) ==
  /\ \E up \in {UploadBatches(inst[Me], remote, n)} :
       /\ CatalogStep("do_uploads", up.st.blobs # inst[Me].blobs, up.st, up.res)
       /\ remote' = up.rem
  /\ UNCHANGED <<srvNodes, now>>

CUploadNodes ==
  /\ \E up \in {BlobStorage_do_uploads_nodes(inst[Me], srvNodes[Me], TRUE)} :
       /\ CatalogStep("do_uploads_nodes", None, up.st, up.res)
       /\ srvNodes' = [srvNodes EXCEPT ![Me] = up.srv]
  /\ UNCHANGED <<remote, now>>

CRemovals ==
  /\ CatalogStep("do_removals", None, BlobStorage_do_removals(inst[Me]), "Ok")
  /\ UNCHANGED <<remote, srvNodes, now>>

\* The process is killed and `run` starts it again; the history tells
\* whether the latest step was a do_uploads that had marked blobs and was
\* stopped.
CRestart ==
  /\ now[Me] < MaxCalls
  /\ CatalogStep("restart",
                 /\ clast # None
                 /\ clast[1].op = "do_uploads" /\ clast[1].res = "EIO"
                 /\ clast[1].arg,
                 Restarted(inst[Me], remote, Me, now[Me] + 1), "Ok")
  /\ Tick
  /\ UNCHANGED <<remote, srvNodes>>

(***************************************************************************)
(* SpecLocks: the locks of one instance. A thread runs one call path: the  *)
(* lock operations and transport calls its handler makes, in source order. *)
(* All handles, inodes and digests fall into one shard of their RwHashes,  *)
(* so every shard lock is shared by all threads. A lock is an RwLock or a  *)
(* Mutex (always taken in mode "w"); a latch is the Arc<Mutex<bool>> of    *)
(* the thread that created it.                                             *)
(***************************************************************************)
LockThreads == {"read", "getattr", "release", "removals", "uploads", "readahead"}
LockDigests == {1, 2}

Lock(name) == [name |-> name, owner |-> "none"]
Latch(t) == [name |-> "latch", owner |-> t]
Acq(name, mode) == <<"acq", name, mode>>
Rel(name) == <<"rel", name>>

\* fetch_from_server(d) with the path's first b instructions before it: the
\* thread that registers its latch pulls; the else branch of "register"
\* clones the registered latch and waits on it.
Path_fetch_from_server_nodrop(d, b) ==
  <<Acq("ongoing", "w"), <<"register", d, b + 10>>, <<"goto", b + 4>>, <<"pull">>,
    Acq("ongoing", "w"), <<"unregister", d>>, Rel("ongoing"), <<"latch_drop">>,
    <<"goto", b + 12>>,
    Rel("ongoing"), <<"latch_wait">> >>

Path_fetch_from_server(d, b) ==
  <<Acq("ongoing", "w"), <<"register", d, b + 10>>, Rel("ongoing"), <<"pull">>,
    Acq("ongoing", "w"), <<"unregister", d>>, Rel("ongoing"), <<"latch_drop">>,
    <<"goto", b + 12>>,
    Rel("ongoing"), <<"latch_wait">> >>

\* get_blob(d) of a digest with no local file, and of one that has a file.
Path_get_blob(d, b) ==
  Path_fetch_from_server(d, b) \o <<Acq("touched_blobs", "w"), Rel("touched_blobs")>>
Path_get_blob_local == <<Acq("touched_blobs", "w"), Rel("touched_blobs")>>

\* FS::read of a block with digest d of a cached inode: with_handle, get_node,
\* BlobStorage::read, whose read guard of blob_cache lives to its end.
Path_FS_read(d) ==
  <<Acq("handles", "r"), Rel("handles"), Acq("node_cache", "r"), Rel("node_cache"),
    Acq("blob_cache", "r")>>
  \o Path_get_blob(d, 5) \o <<Rel("blob_cache")>>

\* FS::getattr of an inode that is not cached and whose entry blob d has no
\* local file: with_handle, get_node holding its read guard over fetch_node.
Path_FS_getattr(d) ==
  <<Acq("handles", "r"), Rel("handles"), Acq("node_cache", "r"),
    Acq("catalog", "w"), Rel("catalog")>>
  \o Path_get_blob(d, 5) \o <<Rel("node_cache")>>

\* FS::release: delete_handle, BackingStore::sync_node with one cached block
\* (BlobStorage::sync_node, save_node with Greater, do_save).
Path_FS_release ==
  <<Acq("handles", "w"), Acq("node_cache", "w"),
    Acq("blob_cache", "w"), Acq("written_blobs", "w"), Rel("written_blobs"),
    Rel("blob_cache"),
    Acq("written_blobs", "w"), Rel("written_blobs"),
    Acq("catalog", "w"), Rel("catalog"), Acq("catalog", "w"), Rel("catalog"),
    Acq("catalog", "w"), Rel("catalog")>>
  \o Path_get_blob_local
  \o <<Acq("catalog", "w"), Rel("catalog"),
       Acq("written_blobs", "w"), Acq("catalog", "w"), Rel("catalog"),
       Rel("written_blobs"),
       Rel("node_cache"), Rel("handles")>>

\* do_removals: the flush of touched_blobs, localbytes, one to_delete list.
Path_do_removals ==
  <<Acq("touched_blobs", "w"), Acq("catalog", "w"), Rel("catalog"), Rel("touched_blobs"),
    Acq("catalog", "w"), Rel("catalog"), Acq("catalog", "w"), Rel("catalog"),
    Acq("catalog", "w"), Rel("catalog")>>

\* do_uploads, one batch: to_upload, upload_to_server, mark_synced_blobs.
Path_do_uploads ==
  <<Acq("catalog", "w"), Rel("catalog"), <<"push">>, Acq("catalog", "w"), Rel("catalog")>>

\* The closure readahead_from_server spawns for digest d.
Path_readahead_closure(d) ==
  <<Acq("ongoing", "w"), <<"register", d, 12>>, Rel("ongoing"), <<"pull">>,
    Acq("ongoing", "w"), <<"unregister", d>>, Rel("ongoing"),
    Acq("touched_blobs", "w"), Rel("touched_blobs"), <<"latch_drop">>,
    <<"goto", 13>>,
    Rel("ongoing")>>

\* The call path of each thread: a read of digest 1 whose readahead closure
\* is for digest 2, a getattr that fetches digest 2, a release, and the
\* removal and upload threads.
LockPaths ==
  [t \in LockThreads |->
     CASE t = "read" -> Path_FS_read(1)
       [] t = "getattr" -> Path_FS_getattr(2)
       [] t = "release" -> Path_FS_release
       [] t = "removals" -> Path_do_removals
       [] t = "uploads" -> Path_do_uploads
       [] t = "readahead" -> Path_readahead_closure(2)]

LocksIdle ==
  /\ lpc = [t \in LockThreads |-> 1]
  /\ lheld = {}
  /\ lreg = [d \in LockDigests |-> "none"]
  /\ lwait = [t \in LockThreads |-> "none"]

Running(t) == lpc[t] <= Len(LockPaths[t])
Ins(t) == LockPaths[t][lpc[t]]
Holds(t, lock) == \E h \in lheld : h.t = t /\ h.lock = lock

\* RwLock::read, RwLock::write and Mutex::lock return when no other guard
\* excludes the new one.
Free(lock, mode) ==
  \A h \in lheld : h.lock = lock => (mode = "r" /\ h.mode = "r")

Advance(t) == lpc' = [lpc EXCEPT ![t] = @ + 1]

LAcquire(t) ==
  /\ Running(t) /\ Ins(t)[1] = "acq"
  /\ Free(Lock(Ins(t)[2]), Ins(t)[3])
  /\ lheld' = lheld \cup {[t |-> t, lock |-> Lock(Ins(t)[2]), mode |-> Ins(t)[3]]}
  /\ Advance(t)
  /\ UNCHANGED <<lreg, lwait>>

\* A guard is dropped.
LRelease(t) ==
  /\ Running(t) /\ Ins(t)[1] = "rel"
  /\ lheld' = {h \in lheld : ~(h.t = t /\ h.lock = Lock(Ins(t)[2]))}
  /\ Advance(t)
  /\ UNCHANGED <<lreg, lwait>>

\* Under the ongoing lock: if ongoing.contains_key(hash) the latch is cloned,
\* else a latch is created, locked and inserted.
LRegister(t) ==
  /\ Running(t) /\ Ins(t)[1] = "register"
  /\ IF lreg[Ins(t)[2]] # "none"
     THEN /\ lwait' = [lwait EXCEPT ![t] = lreg[Ins(t)[2]]]
          /\ lpc' = [lpc EXCEPT ![t] = Ins(t)[3]]
          /\ UNCHANGED <<lheld, lreg>>
     ELSE /\ lreg' = [lreg EXCEPT ![Ins(t)[2]] = t]
          /\ lheld' = lheld \cup {[t |-> t, lock |-> Latch(t), mode |-> "w"]}
          /\ Advance(t)
          /\ UNCHANGED lwait

\* ongoing.remove(hash)
LUnregister(t) ==
  /\ Running(t) /\ Ins(t)[1] = "unregister"
  /\ lreg' = [lreg EXCEPT ![Ins(t)[2]] = "none"]
  /\ Advance(t)
  /\ UNCHANGED <<lheld, lwait>>

\* A transport call (rsync) returns.
LTransport(t) ==
  /\ Running(t) /\ Ins(t)[1] \in {"pull", "push"}
  /\ Advance(t)
  /\ UNCHANGED <<lheld, lreg, lwait>>

\* The guard of the thread's own latch is dropped.
LLatchDrop(t) ==
  /\ Running(t) /\ Ins(t)[1] = "latch_drop"
  /\ lheld' = {h \in lheld : ~(h.t = t /\ h.lock = Latch(t))}
  /\ Advance(t)
  /\ UNCHANGED <<lreg, lwait>>

\* mutex.lock() on the cloned latch returns; the guard drops as
\* fetch_from_server returns.
LLatchWait(t) ==
  /\ Running(t) /\ Ins(t)[1] = "latch_wait"
  /\ Free(Latch(lwait[t]), "w")
  /\ Advance(t)
  /\ UNCHANGED <<lheld, lreg, lwait>>

\* The end of a branch.
LGoto(t) ==
  /\ Running(t) /\ Ins(t)[1] = "goto"
  /\ lpc' = [lpc EXCEPT ![t] = Ins(t)[2]]
  /\ UNCHANGED <<lheld, lreg, lwait>>

\* Any step of thread t.
LockStep(t) ==
  \/ LAcquire(t) \/ LRelease(t) \/ LRegister(t) \/ LUnregister(t)
  \/ LTransport(t) \/ LLatchDrop(t) \/ LLatchWait(t) \/ LGoto(t)

(***************************************************************************)
(* SpecLog: the inode log of the root directory on instance 11. The root   *)
(* is saved by chmod on the instance, by save_node with an entry of        *)
(* instance 22 (as do_downloads_nodes calls it for a line of the nodes     *)
(* file of 22) and by save_node with an entry the log already holds (a     *)
(* line that comes back through the file of another peer); set_node is     *)
(* also called directly with a revision of the log. The variables are      *)
(* those of SpecCatalog.                                                   *)
(***************************************************************************)
MaxSaves == 4

\* The entries of the rows of the root.
LogEntries(st) == {Decode(r.hash.of) : r \in NodeRows(st.nodes, RootNode)}

\* The entries instance 22 can save for the root: modify_node with the chmod
\* closure on a revision it holds, at a time of its own clock.
PeerEntries(st) ==
  {ModifiedEntry(ClosureCall(ChmodClosure(m), e), 22, t) :
     e \in LogEntries(st), m \in Modes, t \in 1..MaxSaves}

LogStep(op, arg, st, res) ==
  /\ inst' = [inst EXCEPT ![Me] = st]
  /\ clast' = Some([op |-> op, arg |-> arg, res |-> res, pre |-> Some(inst[Me])])

\* FS::chmod of the root on the instance.
GChmod(mode) ==
  /\ now[Me] < MaxSaves
  /\ \E r \in {FS_chmod(inst[Me], remote, Me, RootNode, mode, TRUE, now[Me] + 1)} :
       LogStep("chmod", mode, r.st, r.res)
  /\ Tick
  /\ UNCHANGED <<remote, srvNodes>>

\* BlobStorage::save_node of the root with entry e.
GSaveNode(e) ==
  /\ now[Me] < MaxSaves
  /\ \E r \in {BlobStorage_save_node(inst[Me], remote, RootNode, e, TRUE, now[Me] + 1)} :
       LogStep("save_node", e, r.st, r.res)
  /\ Tick
  /\ UNCHANGED <<remote, srvNodes>>

\* MetadataDB::set_node of the root with the digest and time of entry e, a
\* revision of the log.
GSetNode(e) ==
  /\ now[Me] < MaxSaves
  /\ LogStep("set_node", e,
             [inst[Me] EXCEPT !.nodes = MetadataDB_set_node(
                                @, RootNode, Blob_hash(Encode(e)), FSEntry_timeval(e))],
             "Ok")
  /\ Tick
  /\ UNCHANGED <<remote, srvNodes>>

(***************************************************************************)
(* SpecMergeFields: merge_3way applied to entries of two instances that    *)
(* changed the fields of a base entry: one of the fields merged by the     *)
(* macro merge_3way!, or keys of the maps merged by merge_3way_hash!. The  *)
(* variables and the action are those of SpecMerge.                        *)
(***************************************************************************)
ScalarFields == {"perm", "uid", "gid", "flags", "rdev", "size", "blocks"}

\* The value FSEntry::new gives a field, and two other values of its type.
FieldDefault(f) == IF f = "blocks" THEN <<>> ELSE 0
FieldValues(f) ==
  IF f = "blocks" THEN {<<>>, <<HASHZERO>>, <<Blob_hash(DataBlob(<<1>>))>>}
  ELSE {0, 1, 2}

WithField(e, f, v) == [e EXCEPT ![f] = v]

\* Entries of instance p that differ from a new entry in at most one field.
ScalarInputs(p) ==
  UNION {{WithField(MergeEntry(c, p, 0, EmptyMap), f, v) :
            c \in MergeClocks, v \in FieldValues(f)} : f \in ScalarFields}
ScalarBases ==
  UNION {{WithField(FSEntry_new("RegularFile", 11, 1), f, v) : v \in FieldValues(f)} :
           f \in ScalarFields}

\* Maps over the names foo and bar: foo is absent or has one of two values,
\* bar is absent or has the first.
MapsOf(v, w, names) ==
  {m \in [names -> {None, Some(v), Some(w)}] : "bar" \in names => m["bar"] # Some(w)}
MapFrom(m) == [k \in {n \in DOMAIN m : m[n] # None} |-> m[k][1]]
ChildMaps == {MapFrom(m) : m \in MapsOf(<<<<11, 1>>, "RegularFile">>,
                                       <<<<22, 1>>, "RegularFile">>, {"foo", "bar"})}
XattrMaps == {MapFrom(m) : m \in MapsOf(<<0>>, <<1>>, {"foo"})}

MapInputs(p) ==
  {[MergeEntry(c, p, 0, ch) EXCEPT !.xattrs = xa] :
     c \in MergeClocks, ch \in ChildMaps, xa \in XattrMaps}
MapBases ==
  {[FSEntry_new("RegularFile", 11, 1) EXCEPT !.children = ch, !.xattrs = xa] :
     ch \in {m \in ChildMaps : \A k \in DOMAIN m : m[k][1] = <<11, 1>>},
     xa \in {m \in XattrMaps : \A k \in DOMAIN m : m[k] = <<0>>}}

(***************************************************************************)
(* SpecTasks: the background tasks `run` starts on instance 11, each a     *)
(* BackgroundThread (src/src/lib.rs) that calls its closure at every tick  *)
(* until it is told to stop. Instance 22 changes the root and uploads, so  *)
(* that its nodes file grows; the process of instance 11 can be killed and *)
(* started again. A run of do_downloads_nodes is taken line by line, and   *)
(* save_node and set_peer of a line are two steps.                         *)
(***************************************************************************)
Tasks == {"sync", "upload", "nodes1", "nodes2", "remove"}
MaxLines == 2
MaxLocal == 1
MaxCrashes == 1

TasksIdle ==
  /\ tpc = [t \in Tasks |-> "waiting"]
  /\ trun = None
  /\ tapplied = <<>>
  /\ tlast = None
  /\ tcrashes = 0

\* The closure of a task other than nodes2, run to its end; ok is the
\* outcome of the transport calls it makes.
Closure(task, st, ok) ==
  IF task = "sync"
  THEN LET r == BackingStore_sync_all(st, remote, ok, now[Me])
       IN [st |-> r.st, rem |-> remote, srv |-> srvNodes[Me], res |-> r.res]
  ELSE IF task = "upload"
  THEN LET r == BlobStorage_do_uploads(st, remote, ok)
       IN [st |-> r.st, rem |-> r.rem, srv |-> srvNodes[Me], res |-> r.res]
  ELSE IF task = "nodes1"
  THEN LET r == BlobStorage_do_uploads_nodes(st, srvNodes[Me], ok)
       IN [st |-> r.st, rem |-> remote, srv |-> r.srv, res |-> r.res]
  ELSE [st |-> BlobStorage_do_removals(st), rem |-> remote, srv |-> srvNodes[Me],
        res |-> "Ok"]

\* BackgroundThread::new, the Timeout arm for sync, upload, nodes1 and remove:
\* the closure runs; an Err is printed and the loop goes on.
TTick(task, ok) ==
  /\ task # "nodes2"
  /\ tpc[task] = "waiting"
  /\ \E r \in {Closure(task, inst[Me], ok)} :
       /\ inst' = [inst EXCEPT ![Me] = r.st]
       /\ remote' = r.rem
       /\ srvNodes' = [srvNodes EXCEPT ![Me] = r.srv]
       /\ tlast' = Some([task |-> task, res |-> r.res])
  /\ UNCHANGED <<now, tpc, trun, tapplied, tcrashes>>

\* The Timeout arm for nodes2, do_downloads_nodes up to its loop: the nodes
\* directory is pulled (an Err returns) and the cursor of the file is read.
TDownloadStart(ok) ==
  /\ tpc["nodes2"] = "waiting"
  /\ IF ok
     THEN /\ tpc' = [tpc EXCEPT !["nodes2"] = "line"]
          /\ trun' = Some([offset |-> MetadataDB_get_peer(inst[Me].offsets, 22),
                           file |-> srvNodes[22]])
          /\ UNCHANGED tlast
     ELSE /\ tlast' = Some([task |-> "nodes2", res |-> "Err"])
          /\ UNCHANGED <<tpc, trun>>
  /\ UNCHANGED <<worldVars, tapplied, tcrashes>>

\* do_downloads_nodes, a line up to the return of save_node: offset moves
\* behind the line, get_blob(..).unwrap(), save_node(..).unwrap(). An Err
\* panics, which ends the thread; after the last line the closure returns.
TDownloadLine(ok) ==
  /\ tpc["nodes2"] = "line"
  /\ LET offset == trun[1].offset
         file == trun[1].file
     IN IF offset >= Len(file)
        THEN /\ tpc' = [tpc EXCEPT !["nodes2"] = "waiting"]
             /\ tlast' = Some([task |-> "nodes2", res |-> "Ok"])
             /\ trun' = None
             /\ UNCHANGED <<inst, tapplied>>
        ELSE \E g \in {BlobStorage_get_blob(inst[Me], remote, file[offset + 1].hash,
                                            <<>>, ok, now[Me])} :
               IF g.res # "Ok"
               THEN /\ inst' = [inst EXCEPT ![Me] = g.st]
                    /\ tpc' = [tpc EXCEPT !["nodes2"] = "dead"]
                    /\ tlast' = Some([task |-> "nodes2", res |-> "panic"])
                    /\ trun' = None
                    /\ UNCHANGED tapplied
               ELSE \E sv \in {BlobStorage_save_node(
                                 g.st, remote, file[offset + 1].id,
                                 Decode(file[offset + 1].hash.of), ok, now[Me])} :
                      /\ inst' = [inst EXCEPT ![Me] = sv.st]
                      /\ IF sv.res # "Ok"
                         THEN /\ tpc' = [tpc EXCEPT !["nodes2"] = "dead"]
                              /\ tlast' = Some([task |-> "nodes2", res |-> "panic"])
                              /\ trun' = None
                              /\ UNCHANGED tapplied
                         ELSE /\ tpc' = [tpc EXCEPT !["nodes2"] = "saved"]
                              /\ trun' = Some([offset |-> offset + 1, file |-> file])
                              /\ tapplied' = Append(tapplied, offset + 1)
                              /\ UNCHANGED tlast
  /\ UNCHANGED <<remote, srvNodes, now, tcrashes>>

\* do_downloads_nodes, the end of a line: set_peer(peernum, offset).
TDownloadSetPeer ==
  /\ tpc["nodes2"] = "saved"
  /\ inst' = [inst EXCEPT ![Me].offsets = MetadataDB_set_peer(@, 22, trun[1].offset)]
  /\ tpc' = [tpc EXCEPT !["nodes2"] = "line"]
  /\ UNCHANGED <<remote, srvNodes, now, trun, tapplied, tlast, tcrashes>>

\* chmod of the root on instance 11.
TChmod(mode) ==
  /\ now[Me] < MaxLocal
  /\ inst' = [inst EXCEPT ![Me] =
                FS_chmod(@, remote, Me, RootNode, mode, TRUE, now[Me] + 1).st]
  /\ now' = [now EXCEPT ![Me] = @ + 1]
  /\ UNCHANGED <<remote, srvNodes, tasksVars>>

\* Instance 22: chmod of the root, then one run each of sync_all, do_uploads
\* and do_uploads_nodes; its nodes file on the server gains a line.
TRemote(mode) ==
  /\ Len(srvNodes[22]) < MaxLines
  /\ \E t \in {now[22] + 1} :
       \E up \in {BlobStorage_do_uploads(
                    BackingStore_sync_all(
                      FS_chmod(inst[22], remote, 22, RootNode, mode, TRUE, t).st,
                      remote, TRUE, t).st,
                    remote, TRUE)} :
         \E n \in {BlobStorage_do_uploads_nodes(up.st, srvNodes[22], TRUE)} :
           /\ inst' = [inst EXCEPT ![22] = n.st]
           /\ remote' = up.rem
           /\ srvNodes' = [srvNodes EXCEPT ![22] = n.srv]
           /\ now' = [now EXCEPT ![22] = t]
  /\ UNCHANGED tasksVars

\* The process of instance 11 is killed and `run` starts it again: the
\* catalog and the files stay, every task starts waiting for its first tick.
TCrash ==
  /\ tcrashes < MaxCrashes
  /\ inst' = [inst EXCEPT ![Me] = Restarted(@, remote, Me, now[Me])]
  /\ tpc' = [t \in Tasks |-> "waiting"]
  /\ trun' = None
  /\ tlast' = None
  /\ tcrashes' = tcrashes + 1
  /\ UNCHANGED <<remote, srvNodes, now, tapplied>>

(***************************************************************************)
(* Specifications.                                                         *)
(***************************************************************************)
InitVClock ==
  /\ VClockIdle /\ MergeIdle /\ WorldIdle /\ FetchIdle /\ PeersIdle /\ SaveIdle /\ StoreIdle
  /\ CatalogIdle /\ LocksIdle /\ TasksIdle
VClockFrame ==
  UNCHANGED <<mergeVars, worldVars, fetchVars, peersVars, saveVars, storeVars, catalogVars, locksVars, tasksVars>>
NextVClock ==
  \/ VCIncrement /\ VClockFrame
  \/ VCMerge /\ VClockFrame
SpecVClock == InitVClock /\ [][NextVClock]_vars

\* save_node calls merge_3way on two entries whose vector clocks conflict.
InitMerge ==
  /\ VClockIdle /\ WorldIdle /\ FetchIdle /\ PeersIdle /\ SaveIdle /\ StoreIdle
  /\ CatalogIdle /\ LocksIdle /\ TasksIdle
  /\ mBase \in MergeBases /\ mFirst \in MergeInputs /\ mSecond \in MergeInputs
  /\ FSEntry_cmp_vclock(mFirst, mSecond) = "Conflict"
  /\ mOut = None
MergeFrame ==
  UNCHANGED <<vclockVars, worldVars, fetchVars, peersVars, saveVars, storeVars, catalogVars, locksVars, tasksVars>>
NextMerge == MergeApply /\ MergeFrame
SpecMerge == InitMerge /\ [][NextMerge]_vars

InitFetch ==
  /\ VClockIdle /\ MergeIdle /\ FetchIdle /\ PeersIdle /\ SaveIdle /\ StoreIdle
  /\ CatalogIdle /\ LocksIdle /\ TasksIdle
  /\ inst = [p \in Peers |-> IF p = Me THEN BackingStore_new(PeerNew, Me, 0) ELSE PeerNew]
  /\ remote = FetchDigests /\ srvNodes = [p \in Peers |-> <<>>]
  /\ now = [p \in Peers |-> 0]
FetchFrame ==
  UNCHANGED <<vclockVars, mergeVars, peersVars, saveVars, storeVars, catalogVars, locksVars, tasksVars>>
NextFetch ==
  \/ \E t \in Threads, d \in FetchDigests : GetBlobStart(t, d) /\ FetchFrame
  \/ \E t, u \in Threads, d, h \in FetchDigests : GetBlobStartReadahead(t, d, h, u) /\ FetchFrame
  \/ \E t \in Threads : GetBlobCheck(t) /\ FetchFrame
  \/ \E t \in Threads : FetchEnter(t) /\ FetchFrame
  \/ \E t \in Threads, ok \in BOOLEAN : FetchPull(t, ok) /\ FetchFrame
  \/ \E t \in Threads : FetchCleanup(t) /\ FetchFrame
  \/ \E t \in Threads : FetchWait(t) /\ FetchFrame
  \/ \E t \in Threads : GetBlobLoad(t) /\ FetchFrame
  \/ \E t \in Threads : RaEnter(t) /\ FetchFrame
  \/ \E t \in Threads, ok \in BOOLEAN : RaPull(t, ok) /\ FetchFrame
  \/ \E t \in Threads : RaCleanup(t) /\ FetchFrame
  \/ \E t \in Threads : RaTouch(t) /\ FetchFrame
SpecFetch == InitFetch /\ [][NextFetch]_vars

InitPeers ==
  /\ VClockIdle /\ MergeIdle /\ FetchIdle /\ PeersIdle /\ SaveIdle /\ StoreIdle
  /\ CatalogIdle /\ LocksIdle /\ TasksIdle
  /\ \E seed \in {SeedPeer} :
       /\ inst = [p \in Peers |-> IF p = Me THEN seed.st ELSE ClonedPeer(seed, p)]
       /\ remote = seed.rem
       /\ srvNodes = [p \in Peers |-> IF p = Me THEN seed.srv ELSE <<>>]
  /\ now \in [Peers -> {0, 1}]
PeersFrame ==
  UNCHANGED <<vclockVars, mergeVars, fetchVars, saveVars, storeVars, catalogVars, locksVars, tasksVars>>
NextPeers ==
  \/ \E p \in Peers, mode \in Modes : PChmod(p, mode) /\ PeersFrame
  \/ \E p \in Peers : PSyncAll(p) /\ PeersFrame
  \/ \E p \in Peers, ok \in BOOLEAN : PUploads(p, ok) /\ PeersFrame
  \/ \E p \in Peers, ok \in BOOLEAN : PUploadNodes(p, ok) /\ PeersFrame
  \/ \E p \in Peers, ok \in BOOLEAN : PDownloadNodes(p, ok) /\ PeersFrame
SpecPeers == InitPeers /\ [][NextPeers]_vars

\* Instance 11 with its root uploaded; on the server the blobs and the nodes
\* file of instance 22, which changed the root's mode.
InitSave ==
  /\ VClockIdle /\ MergeIdle /\ FetchIdle /\ PeersIdle /\ SaveIdle /\ StoreIdle
  /\ CatalogIdle /\ LocksIdle /\ TasksIdle
  /\ \E seed \in {SeedPeer}, mode \in Modes, t \in {1, 2} :
       \E other \in {RemotePeer(seed, mode, t)} :
         /\ inst = [p \in Peers |-> IF p = Me THEN seed.st ELSE other.st]
         /\ remote = other.rem
         /\ srvNodes = [p \in Peers |-> IF p = Me THEN seed.srv ELSE other.srv]
  /\ now \in [Peers -> {1, 2}]
  /\ now[22] = 2
SaveFrame ==
  UNCHANGED <<vclockVars, mergeVars, fetchVars, peersVars, storeVars, catalogVars, locksVars, tasksVars>>
NextSave ==
  \/ \E mode \in Modes : WorkerStart(mode) /\ SaveFrame
  \/ DownloadStart /\ SaveFrame
  \/ DownloadLine /\ SaveFrame
  \/ \E t \in SaveThreads : SaveBegin(t) /\ SaveFrame
  \/ \E t \in SaveThreads : SaveExists(t) /\ SaveFrame
  \/ \E t \in SaveThreads : SaveRead(t) /\ SaveFrame
  \/ \E t \in SaveThreads : SaveApply(t) /\ SaveFrame
SpecSave == InitSave /\ [][NextSave]_vars

InitStore ==
  /\ VClockIdle /\ MergeIdle /\ FetchIdle /\ PeersIdle /\ SaveIdle /\ StoreIdle
  /\ CatalogIdle /\ LocksIdle /\ TasksIdle
  /\ \E seed \in {SeedPeer} :
       /\ inst = [p \in Peers |-> IF p = Me THEN StorePeer(seed) ELSE PeerNew]
       /\ remote = seed.rem
       /\ srvNodes = [p \in Peers |-> IF p = Me THEN seed.srv ELSE <<>>]
  /\ now = [p \in Peers |-> 0]
StoreFrame ==
  UNCHANGED <<vclockVars, mergeVars, fetchVars, peersVars, saveVars, catalogVars, locksVars, tasksVars>>
NextStore ==
  \/ \E h \in DOMAIN inst[Me].handles, sp \in Spans, ok \in BOOLEAN : SWrite(h, sp, ok) /\ StoreFrame
  \/ \E h \in DOMAIN inst[Me].handles, ok \in BOOLEAN : SRead(h, ok) /\ StoreFrame
  \/ \E h \in DOMAIN inst[Me].handles : SRelease(h) /\ StoreFrame
  \/ SChmod /\ StoreFrame
  \/ SSyncAll /\ StoreFrame
  \/ \E ok \in BOOLEAN : SUploads(ok) /\ StoreFrame
  \/ SRemovals /\ StoreFrame
  \/ \E d \in inst[Me].spawned, ok \in BOOLEAN : SReadahead(d, ok) /\ StoreFrame
SpecStore == InitStore /\ [][NextStore]_vars

\* The file of SpecStore written, truncated, read, released and synced.
NextTruncate ==
  \/ \E h \in DOMAIN inst[Me].handles, sp \in Spans, ok \in BOOLEAN : SWrite(h, sp, ok) /\ StoreFrame
  \/ \E h \in DOMAIN inst[Me].handles, size \in TruncateSizes : STruncate(h, size) /\ StoreFrame
  \/ \E h \in DOMAIN inst[Me].handles, ok \in BOOLEAN : SRead(h, ok) /\ StoreFrame
  \/ \E h \in DOMAIN inst[Me].handles : SRelease(h) /\ StoreFrame
  \/ SSyncAll /\ StoreFrame
SpecTruncate == InitStore /\ [][NextTruncate]_vars

InitCatalog ==
  /\ VClockIdle /\ MergeIdle /\ FetchIdle /\ PeersIdle /\ SaveIdle /\ StoreIdle
  /\ CatalogIdle /\ LocksIdle /\ TasksIdle
  /\ \E seed \in {SeedPeer}, n \in {0, MaxPreload} :
       /\ inst = [p \in Peers |-> IF p = Me THEN CatalogPeer(seed, n) ELSE PeerNew]
       /\ remote = seed.rem
       /\ srvNodes = [p \in Peers |-> IF p = Me THEN seed.srv ELSE <<>>]
  /\ now = [p \in Peers |-> 0]
CatalogFrame ==
  UNCHANGED <<vclockVars, mergeVars, fetchVars, peersVars, saveVars, storeVars, locksVars, tasksVars>>
NextCatalog ==
  \/ \E k \in {1, 2} : CAdd(k) /\ CatalogFrame
  \/ \E k \in {1, 2} : CRead(k) /\ CatalogFrame
  \/ CChmod /\ CatalogFrame
  \/ CSave /\ CatalogFrame
  \/ \E n \in 0..MaxBatches : CUploads(n) /\ CatalogFrame
  \/ CUploadNodes /\ CatalogFrame
  \/ CRemovals /\ CatalogFrame
  \/ CRestart /\ CatalogFrame
SpecCatalog == InitCatalog /\ [][NextCatalog]_vars

InitLocks ==
  /\ VClockIdle /\ MergeIdle /\ WorldIdle /\ FetchIdle /\ PeersIdle /\ SaveIdle /\ StoreIdle
  /\ CatalogIdle /\ LocksIdle /\ TasksIdle
LocksFrame ==
  UNCHANGED <<vclockVars, mergeVars, worldVars, fetchVars, peersVars, saveVars, storeVars,
              catalogVars, tasksVars>>
NextLocks ==
  \/ \E t \in LockThreads : LAcquire(t) /\ LocksFrame
  \/ \E t \in LockThreads : LRelease(t) /\ LocksFrame
  \/ \E t \in LockThreads : LRegister(t) /\ LocksFrame
  \/ \E t \in LockThreads : LUnregister(t) /\ LocksFrame
  \/ \E t \in LockThreads : LTransport(t) /\ LocksFrame
  \/ \E t \in LockThreads : LLatchDrop(t) /\ LocksFrame
  \/ \E t \in LockThreads : LLatchWait(t) /\ LocksFrame
  \/ \E t \in LockThreads : LGoto(t) /\ LocksFrame
SpecLocks == InitLocks /\ [][NextLocks]_vars

InitLog ==
  /\ VClockIdle /\ MergeIdle /\ FetchIdle /\ PeersIdle /\ SaveIdle /\ StoreIdle
  /\ CatalogIdle /\ LocksIdle /\ TasksIdle
  /\ \E seed \in {SeedPeer} :
       /\ inst = [p \in Peers |-> IF p = Me THEN seed.st ELSE PeerNew]
       /\ remote = seed.rem
       /\ srvNodes = [p \in Peers |-> IF p = Me THEN seed.srv ELSE <<>>]
  /\ now = [p \in Peers |-> 0]
NextLog ==
  \/ \E m \in Modes : GChmod(m) /\ CatalogFrame
  \/ \E e \in PeerEntries(inst[Me]) : GSaveNode(e) /\ CatalogFrame
  \/ \E e \in LogEntries(inst[Me]) : GSaveNode(e) /\ CatalogFrame
  \/ \E e \in LogEntries(inst[Me]) : GSetNode(e) /\ CatalogFrame
SpecLog == InitLog /\ [][NextLog]_vars

InitMergeFields ==
  /\ VClockIdle /\ WorldIdle /\ FetchIdle /\ PeersIdle /\ SaveIdle /\ StoreIdle
  /\ CatalogIdle /\ LocksIdle /\ TasksIdle
  /\ \E p, q \in Peers :
       /\ p # q
       /\ \/ mBase \in ScalarBases /\ mFirst \in ScalarInputs(p) /\ mSecond \in ScalarInputs(q)
          \/ mBase \in MapBases /\ mFirst \in MapInputs(p) /\ mSecond \in MapInputs(q)
  /\ mOut = None
SpecMergeFields == InitMergeFields /\ [][NextMerge]_vars

InitTasks ==
  /\ VClockIdle /\ MergeIdle /\ FetchIdle /\ PeersIdle /\ SaveIdle /\ StoreIdle
  /\ CatalogIdle /\ LocksIdle /\ TasksIdle
  /\ \E seed \in {SeedPeer} :
       /\ inst = [p \in Peers |-> IF p = Me THEN seed.st ELSE ClonedPeer(seed, p)]
       /\ remote = seed.rem
       /\ srvNodes = [p \in Peers |-> IF p = Me THEN seed.srv ELSE <<>>]
  /\ now = [p \in Peers |-> 0]
TasksFrame ==
  UNCHANGED <<vclockVars, mergeVars, fetchVars, peersVars, saveVars, storeVars, catalogVars,
              locksVars>>
NextTasks ==
  \/ \E task \in Tasks, ok \in BOOLEAN : TTick(task, ok) /\ TasksFrame
  \/ \E ok \in BOOLEAN : TDownloadStart(ok) /\ TasksFrame
  \/ \E ok \in BOOLEAN : TDownloadLine(ok) /\ TasksFrame
  \/ TDownloadSetPeer /\ TasksFrame
  \/ \E mode \in Modes : TChmod(mode) /\ TasksFrame
  \/ \E mode \in Modes : TRemote(mode) /\ TasksFrame
  \/ TCrash /\ TasksFrame
SpecTasks == InitTasks /\ [][NextTasks]_vars


(***************************************************************************)
(* SpecSyncWrite: FS::write on the open file /f taken in the steps of      *)
(* modify_node (get_node, the closure FSEntry::write that fills the        *)
(* write-back cache, save_node_cached) while the sync task runs sync_all   *)
(* between any two of them; the handle is released when no write is under  *)
(* way. The worker keeps the entry it cloned in sentry.                    *)
(***************************************************************************)
\* modify_node of a write, get_node: the worker clones the entry.
WGet(h, sp) ==
  /\ sops < MaxOps
  /\ spc["worker"] = "idle"
  /\ \E g \in {BackingStore_get_node(inst[Me], remote, inst[Me].handles[h], TRUE,
                                     now[Me])} :
       /\ g.res = "Ok"
       /\ inst' = [inst EXCEPT ![Me] = g.st]
       /\ sentry' = [sentry EXCEPT !["worker"] =
                       Some([entry |-> g.entry, node |-> inst[Me].handles[h],
                             offset |-> sp[1],
                             new |-> [k \in 1..sp[2] |-> sops + 1]])]
  /\ spc' = [spc EXCEPT !["worker"] = "got"]
  /\ UNCHANGED <<remote, srvNodes, now, scurr, scalls, storeVars>>

\* modify_node of a write, the closure: FSEntry::write on the clone.
WBlocks ==
  /\ spc["worker"] = "got"
  /\ \E c \in {sentry["worker"][1]} :
       \E w \in {FSEntry_write(inst[Me], remote, c.entry, c.node, c.offset, c.new,
                               TRUE, now[Me] + 1)} :
         /\ w.res = "Ok"
         /\ inst' = [inst EXCEPT ![Me] = w.st]
         /\ sentry' = [sentry EXCEPT !["worker"] = Some([c EXCEPT !.entry = w.entry])]
  /\ spc' = [spc EXCEPT !["worker"] = "written"]
  /\ UNCHANGED <<remote, srvNodes, now, scurr, scalls, storeVars>>

\* modify_node of a write, the end: clock, vector clock and peernum are set
\* and the entry goes into the node cache. The history keeps the write.
WSave ==
  /\ spc["worker"] = "written"
  /\ \E c \in {sentry["worker"][1]} :
       /\ inst' = [inst EXCEPT ![Me] =
                     BackingStore_save_node_cached(
                       @, c.node, ModifiedEntry(c.entry, Me, now[Me] + 1))]
       /\ scalls' = [scalls EXCEPT !["worker"] =
                       Append(@, [offset |-> c.offset, bytes |-> c.new])]
       /\ wlast' = Some([offset |-> c.offset, bytes |-> c.new])
  /\ spc' = [spc EXCEPT !["worker"] = "idle"]
  /\ sentry' = [sentry EXCEPT !["worker"] = None]
  /\ now' = [now EXCEPT ![Me] = @ + 1]
  /\ sops' = sops + 1
  /\ rd' = None /\ lastSync' = None /\ evicted' = {}
  /\ UNCHANGED <<remote, srvNodes, scurr>>

\* One run of sync_all. The history keeps whether set_block indexed past the
\* block list of a drained entry, which panics.
WSyncAll ==
  /\ \E r \in {BackingStore_sync_all(inst[Me], remote, TRUE, now[Me])} :
       /\ inst' = [inst EXCEPT ![Me] = r.st]
       /\ lastSync' =
            Some([node |-> RootNode,
                  res |-> IF \E n \in DOMAIN inst[Me].node_cache :
                               BackingStore_sync_one_node(
                                 inst[Me], remote, n, inst[Me].node_cache[n], TRUE,
                                 now[Me]).res = "panic"
                          THEN "panic" ELSE r.res,
                  stored |-> EmptyMap])
  /\ rd' = None /\ evicted' = {}
  /\ UNCHANGED <<remote, srvNodes, now, sops, wlast, saveVars>>

\* release of the handle, when no write is under way.
WRelease(h) ==
  /\ spc["worker"] = "idle"
  /\ SRelease(h)
  /\ UNCHANGED saveVars

SyncWriteFrame ==
  UNCHANGED <<vclockVars, mergeVars, fetchVars, peersVars, catalogVars, locksVars,
              tasksVars>>
NextSyncWrite ==
  \/ \E h \in DOMAIN inst[Me].handles, sp \in Spans : WGet(h, sp) /\ SyncWriteFrame
  \/ WBlocks /\ SyncWriteFrame
  \/ WSave /\ SyncWriteFrame
  \/ WSyncAll /\ SyncWriteFrame
  \/ \E h \in DOMAIN inst[Me].handles : WRelease(h) /\ SyncWriteFrame
SpecSyncWrite == InitStore /\ [][NextSyncWrite]_vars

(***************************************************************************)
(* SpecModify: two worker threads of the mounted filesystem mutate the     *)
(* root directory, each in the steps of FS::modify_node: get_node, then    *)
(* the closure and the save. create, unlink, setxattr and removexattr are  *)
(* the handlers; sentry holds the entry a worker cloned and its closure.   *)
(***************************************************************************)
Workers == {"worker1", "worker2"}
NewName == "a"
AttrName == "user.x"

\* The handlers a worker may run: create or unlink of /a or /f, setxattr of
\* the root with either flag, removexattr of the root.
Mutations ==
  {[handler |-> h, name |-> n] : h \in {"create", "unlink"}, n \in {NewName, FileName}}
  \cup {[handler |-> "setxattr", create |-> c, replace |-> r] : c, r \in BOOLEAN}
  \cup {[handler |-> "removexattr"]}

\* The handler up to and with get_node of modify_node. create first saves the
\* new inode with create_node and opens a handle on it.
MBegin(w, m) ==
  /\ sops < MaxOps
  /\ spc[w] = "idle"
  /\ \E c \in {IF m.handler = "create"
               THEN BackingStore_create_node(
                      inst[Me], remote, Me,
                      [FSEntry_new("RegularFile", Me, now[Me] + 1) EXCEPT !.perm = 420],
                      TRUE, now[Me] + 1)
               ELSE [st |-> inst[Me], res |-> "Ok", node |-> RootNode]} :
       \E s1 \in {IF m.handler = "create" THEN FS_create_handle(c.st, c.node) ELSE c.st} :
         \E g \in {BackingStore_get_node(s1, remote, RootNode, TRUE, now[Me])} :
           /\ c.res = "Ok" /\ g.res = "Ok"
           /\ inst' = [inst EXCEPT ![Me] = g.st]
           /\ sentry' = [sentry EXCEPT ![w] =
                Some([entry |-> g.entry,
                      closure |->
                        IF m.handler = "create"
                        THEN AddChildClosure(m.name, <<c.node, "RegularFile">>)
                        ELSE IF m.handler = "unlink" THEN RemoveChildClosure(m.name)
                        ELSE IF m.handler = "setxattr"
                        THEN SetxattrClosure(AttrName, m.create, m.replace)
                        ELSE RemovexattrClosure(AttrName)])]
  /\ spc' = [spc EXCEPT ![w] = "got"]
  /\ sops' = sops + 1
  /\ now' = [now EXCEPT ![Me] = @ + 1]
  /\ UNCHANGED <<remote, srvNodes, scurr, scalls, wlast, rd, lastSync, evicted, clast>>

\* The rest of modify_node: the closure runs on the clone, clock, vector
\* clock and peernum are set and the entry is saved, whatever the closure
\* returned; the handler returns the closure's result.
MSave(w) ==
  /\ spc[w] = "got"
  /\ \E c \in {sentry[w][1]} :
       \E sv \in {BlobStorage_save_node(
                    inst[Me], remote, RootNode,
                    ModifiedEntry(ClosureCall(c.closure, c.entry), Me, now[Me] + 1),
                    TRUE, now[Me] + 1)} :
         /\ inst' = [inst EXCEPT ![Me] = sv.st]
         /\ clast' = Some([op |-> c.closure.op, arg |-> c.closure,
                           res |-> IF sv.res # "Ok" THEN sv.res
                                   ELSE ClosureResult(c.closure, c.entry),
                           pre |-> Some(inst[Me])])
         /\ scalls' = [scalls EXCEPT ![w] = Append(@, c.closure)]
  /\ spc' = [spc EXCEPT ![w] = "idle"]
  /\ sentry' = [sentry EXCEPT ![w] = None]
  /\ now' = [now EXCEPT ![Me] = @ + 1]
  /\ UNCHANGED <<remote, srvNodes, scurr, storeVars>>

InitModify ==
  /\ VClockIdle /\ MergeIdle /\ FetchIdle /\ PeersIdle /\ StoreIdle
  /\ CatalogIdle /\ LocksIdle /\ TasksIdle
  /\ spc = [w \in Workers |-> "idle"]
  /\ sentry = [w \in Workers |-> None]
  /\ scurr = [w \in Workers |-> None]
  /\ scalls = [w \in Workers |-> <<>>]
  /\ \E seed \in {SeedPeer} :
       /\ inst = [p \in Peers |-> IF p = Me THEN StorePeer(seed) ELSE PeerNew]
       /\ remote = seed.rem
       /\ srvNodes = [p \in Peers |-> IF p = Me THEN seed.srv ELSE <<>>]
  /\ now = [p \in Peers |-> 0]
ModifyFrame ==
  UNCHANGED <<vclockVars, mergeVars, fetchVars, peersVars, locksVars, tasksVars>>
NextModify ==
  \/ \E w \in Workers, m \in Mutations : MBegin(w, m) /\ ModifyFrame
  \/ \E w \in Workers : MSave(w) /\ ModifyFrame
SpecModify == InitModify /\ [][NextModify]_vars

(***************************************************************************)
(* SpecRemovals: the removal task on an instance whose catalog grows by    *)
(* add_blob and do_save and whose blobs do_uploads marks synced. A run of  *)
(* do_removals is taken pass by pass of its loop; trun holds its locals    *)
(* and the files of the blobs directory that fs::remove_file cannot        *)
(* unlink during the run (they stay where they are).                       *)
(***************************************************************************)
\* One pass of the for loop when unlinking the files in stuck fails: such a
\* candidate is skipped by `continue`, neither counted nor pushed.
RECURSIVE RemovePassFailing(_, _, _, _, _)
RemovePassFailing(cands, deleted, deleted_bytes, bytes_to_delete, stuck) ==
  IF cands = <<>> THEN [deleted |-> deleted, deleted_bytes |-> deleted_bytes]
  ELSE IF Head(cands).hash \in stuck
  THEN RemovePassFailing(Tail(cands), deleted, deleted_bytes, bytes_to_delete, stuck)
  ELSE LET bytes == deleted_bytes + Head(cands).size
       IN IF bytes >= bytes_to_delete
          THEN [deleted |-> deleted \cup {Head(cands).hash}, deleted_bytes |-> bytes]
          ELSE RemovePassFailing(Tail(cands), deleted \cup {Head(cands).hash}, bytes,
                                 bytes_to_delete, stuck)

\* do_removals up to its loop: touched_blobs is drained, and the run returns
\* at once when the local bytes are within the budget.
RStart(stuck) ==
  /\ tpc["remove"] = "waiting"
  /\ \E s1 \in {TouchFlushed(inst[Me])} :
       /\ stuck \subseteq Range(MetadataDB_to_delete(s1.blobs))
       /\ inst' = [inst EXCEPT ![Me] = s1]
       /\ \E localbytes \in {MetadataDB_localbytes(s1.blobs)} :
            IF localbytes > maxbytes
            THEN /\ tpc' = [tpc EXCEPT !["remove"] = "loop"]
                 /\ trun' = Some([deleted_bytes |-> 0,
                                  bytes_to_delete |-> localbytes - maxbytes,
                                  stuck |-> stuck])
                 /\ tlast' = None
            ELSE /\ stuck = {}
                 /\ tlast' = Some([task |-> "remove", res |-> "Ok"])
                 /\ UNCHANGED <<tpc, trun>>
  /\ UNCHANGED <<remote, srvNodes, now, tapplied, tcrashes, catalogVars>>

\* One turn of the loop of do_removals: to_delete(), the for loop over it,
\* mark_deleted_blobs, and the two breaks.
RPass ==
  /\ tpc["remove"] = "loop"
  /\ \E r \in {trun[1]}, hashes_to_delete \in {MetadataDB_to_delete(inst[Me].blobs)} :
       IF hashes_to_delete = <<>>
       THEN /\ tpc' = [tpc EXCEPT !["remove"] = "waiting"]
            /\ trun' = None
            /\ tlast' = Some([task |-> "remove", res |-> "Ok"])
            /\ UNCHANGED inst
       ELSE \E pass \in {RemovePassFailing(
                           [i \in DOMAIN hashes_to_delete |->
                              [hash |-> hashes_to_delete[i],
                               size |-> inst[Me].blobs[hashes_to_delete[i]].size]],
                           {}, r.deleted_bytes, r.bytes_to_delete, r.stuck)} :
              /\ inst' = [inst EXCEPT ![Me] =
                            [@ EXCEPT !.disk = @ \ pass.deleted,
                                      !.blobs = MetadataDB_mark_deleted_blobs(
                                                  @, pass.deleted)]]
              /\ IF pass.deleted_bytes >= r.bytes_to_delete
                 THEN /\ tpc' = [tpc EXCEPT !["remove"] = "waiting"]
                      /\ trun' = None
                      /\ tlast' = Some([task |-> "remove", res |-> "Ok"])
                 ELSE /\ trun' = Some([r EXCEPT !.deleted_bytes = pass.deleted_bytes])
                      /\ UNCHANGED <<tpc, tlast>>
  /\ UNCHANGED <<remote, srvNodes, now, tapplied, tcrashes, catalogVars>>

\* add_blob of content k, do_save, and a run of do_uploads next to the task.
RAdd(k) ==
  /\ now[Me] < MaxCalls
  /\ inst' = [inst EXCEPT ![Me] =
                BlobStorage_add_blob(@, DataBlob(Content(k)), now[Me] + 1)]
  /\ Tick
  /\ UNCHANGED <<remote, srvNodes, tasksVars, catalogVars>>
RSave ==
  /\ inst' = [inst EXCEPT ![Me] = BlobStorage_do_save(@)]
  /\ UNCHANGED <<remote, srvNodes, now, tasksVars, catalogVars>>
RUploads ==
  /\ \E up \in {BlobStorage_do_uploads(inst[Me], remote, TRUE)} :
       /\ inst' = [inst EXCEPT ![Me] = up.st]
       /\ remote' = up.rem
  /\ UNCHANGED <<srvNodes, now, tasksVars, catalogVars>>

RemovalsFrame ==
  UNCHANGED <<vclockVars, mergeVars, fetchVars, peersVars, saveVars, storeVars, locksVars>>
NextRemovals ==
  \/ \E k \in {1, 2} : RAdd(k) /\ RemovalsFrame
  \/ RSave /\ RemovalsFrame
  \/ RUploads /\ RemovalsFrame
  \/ \E stuck \in SUBSET {Digest(1), Digest(2)} : RStart(stuck) /\ RemovalsFrame
  \/ RPass /\ RemovalsFrame
\* The removal thread runs: a turn of the loop that is possible is taken.
SpecRemovals == InitCatalog /\ [][NextRemovals]_vars /\ WF_vars(RPass /\ RemovalsFrame)

(***************************************************************************)
(* Claims.                                                                 *)
(***************************************************************************)
VCLe(a, b) == VectorClock_cmp(a, b) \in {"Less", "Equal"}

\* C7: VectorClock.cmp is a partial order over the clocks reachable by
\* increment and merge: cmp(a,a) = Equal; cmp(a,b) and cmp(b,a) both in
\* {Less, Equal} only for identical a and b; and cmp(a,b), cmp(b,c) in
\* {Less, Equal} give cmp(a,c) in {Less, Equal}.
C7_CmpPartialOrder ==
  LET S == {vcA, vcB, vcC}
  IN /\ \A a \in S : VectorClock_cmp(a, a) = "Equal"
     /\ \A a, b \in S : VCLe(a, b) /\ VCLe(b, a) => a = b
     /\ \A a, b, c \in S : VCLe(a, b) /\ VCLe(b, c) => VCLe(a, c)

\* C7 witness: a strict chain of three clocks over different key sets, next
\* to a clock that was merged.
C7_Witness ==
  /\ VectorClock_cmp(vcA, vcB) = "Less"
  /\ VectorClock_cmp(vcB, vcC) = "Less"
  /\ DOMAIN vcA # DOMAIN vcB /\ DOMAIN vcB # DOMAIN vcC
  /\ Cardinality(DOMAIN vcC) = 3

\* C6: for all entries base, a, b of one file type base.merge_3way(a, b) is
\* structurally equal to base.merge_3way(b, a).
C6_MergeCommutes == mOut # None => mOut[1] = mOut[2]

FetchAllDone == \A t \in Threads : fpc[t] \in {"idle", "done"}
InFlight(d) == {t \in Threads : fpc[t] \in {"pull", "ra_pull"} /\ fhash[t] = d}

\* C1: when threads concurrently request the same missing digest through
\* get_blob, the transport pull for that digest is invoked exactly once in
\* total (stated for runs in which no pull of the digest failed).
C1_ExactlyOnePull ==
  \A d \in FetchDigests :
    (/\ FetchAllDone
     /\ Cardinality({t \in Threads : fhash[t] = d /\ sawMissing[t]}) >= 2
     /\ \A t \in Threads : fhash[t] = d => pullOutcome[t] # "fail")
    => pulls[d] = 1

\* C2: at most one transport pull per digest is in flight, counting the pulls
\* of fetch_from_server and of readahead_from_server together, and a thread
\* that found the digest registered in ongoing has started no pull.
C2_OnePullInFlight ==
  /\ \A d \in FetchDigests : Cardinality(InFlight(d)) <= 1
  /\ \A t \in Threads : fwait[t] # None => pullOutcome[t] = "none" /\ fpc[t] # "pull"

\* C2 witness: a pull in flight for a digest while one thread waits on its
\* latch and a readahead closure for the same digest has ended without
\* pulling.
C2_Witness ==
  \E d \in FetchDigests, t, u \in Threads :
    /\ InFlight(d) # {}
    /\ fpc[t] = "wait" /\ fhash[t] = d
    /\ fpc[u] = "done" /\ fhash[u] = d /\ u # t /\ fwait[u] = None
    /\ pullOutcome[u] = "none" /\ gret[u] = "none"

\* C3: a fetch_from_server call that found its digest registered in ongoing
\* has returned only after the registered pull finished, and returned Ok iff
\* that pull succeeded, EIO iff it failed.
C3_WaiterGetsOutcome ==
  \A t \in Threads :
    (fwait[t] # None /\ fret[t] # "none") =>
      LET o == fwait[t][1]
      IN /\ pullOutcome[o] # "none"
         /\ fret[t] = "Ok" <=> pullOutcome[o] = "ok"
         /\ fret[t] = "EIO" <=> pullOutcome[o] = "fail"

\* C3 witness: one waiter returned Ok from a fetch thread's pull, another
\* returned EIO from a readahead closure's failed pull.
C3_Witness ==
  \E t, u \in Threads :
    /\ fwait[t] # None /\ fret[t] = "Ok"
    /\ fwait[u] # None /\ fret[u] = "EIO" /\ u # t

\* The head entry of the root on instance p.
RootHead(p) == MetadataDB_get_node(inst[p].nodes, RootNode)

\* Instance p has pushed every row of its log and instance q has applied
\* every line of p's file.
Exchanged(p, q) ==
  /\ \A r \in inst[p].nodes : r.synced = 1
  /\ srvNodes[p] = inst[p].ownfile
  /\ MetadataDB_get_peer(inst[q].offsets, p) = Len(srvNodes[p])

NodeLog(nodes, node) ==
  LET rows == RowsByRowid(NodeRows(nodes, node))
  IN [i \in DOMAIN rows |-> rows[i].hash]

\* The log of the root after the calls save_node(RootNode, calls[i]) ran one
\* after the other on instance st.
RECURSIVE SequentialLog(_, _)
SequentialLog(st, calls) ==
  IF calls = <<>> THEN NodeLog(st.nodes, RootNode)
  ELSE SequentialLog(
         BlobStorage_save_node(st, remote, RootNode, Head(calls), TRUE, now[Me]).st,
         Tail(calls))

\* The worker's call placed after the first k calls of the download thread.
WorkerAfter(k) ==
  SubSeq(scalls["download"], 1, k) \o scalls["worker"]
    \o SubSeq(scalls["download"], k + 1, Len(scalls["download"]))

\* C4: save_node calls on one inode are serialized: once the worker's call
\* and the download thread's calls have returned, the log of the inode is the
\* log of some sequential order of these calls.
C4_SaveSerialized ==
  (spc["worker"] = "done" /\ spc["download"] = "done")
  => \E k \in 0..Len(scalls["download"]) :
       NodeLog(inst[Me].nodes, RootNode) = SequentialLog(SeedPeer.st, WorkerAfter(k))

\* C8: bytes written at an offset are returned unchanged by a later read of
\* the same node, offset and length when no write intervenes, while the block
\* is cached and after it was flushed. A read that failed on the transport
\* (EIO) is not counted; a panic is.
C8_ReadReturnsWritten ==
  (wlast # None /\ rd # None /\ rd[1].res # "EIO")
  => rd[1].res = "Ok" /\ rd[1].bytes = wlast[1].bytes

\* The block list of the head entry of a node.
HeadBlocks(st, node) == Decode(HeadRow(st.nodes, node).hash.of).blocks

\* sync_node on the node returned Ok as the latest operation.
SyncedOk == lastSync # None /\ lastSync[1].res = "Ok"

C10_OnlySyncedLargeEvicted ==
  \A e \in evicted : e.synced = 1 /\ e.size > KEEP_UP_TO_SIZE

\* do_removals has unlinked a blob while a larger-than-KEEP_UP_TO_SIZE blob
\* that is not synced and a synced blob of at most KEEP_UP_TO_SIZE are on disk.
C10_Witness ==
  /\ evicted # {}
  /\ \E h \in inst[Me].disk : /\ h \in DOMAIN inst[Me].blobs
                              /\ inst[Me].blobs[h].synced = 0
                              /\ inst[Me].blobs[h].size > KEEP_UP_TO_SIZE
  /\ \E h \in inst[Me].disk : /\ h \in DOMAIN inst[Me].blobs
                              /\ inst[Me].blobs[h].synced = 1
                              /\ inst[Me].blobs[h].size <= KEEP_UP_TO_SIZE

\* The bytes do_removals may reclaim: the rows to_delete() selects from.
EligibleBytes(blobs) == SumSizes(blobs, {h \in DOMAIN blobs : Evictable(blobs, h)})

\* The latest step was a run of do_removals.
Removed == clast # None /\ clast[1].op = "do_removals"

\* C11: when do_removals returns and the eligible blobs (synced=1, present=1,
\* size > KEEP_UP_TO_SIZE) it started with, in the catalog as it reads it
\* (touched_blobs flushed), total at least localbytes() - maxbytes, then
\* localbytes() is at most maxbytes.
C11_RemovalsReachBudget ==
  Removed =>
    LET start == TouchFlushed(clast[1].pre[1]).blobs
    IN EligibleBytes(start) >= MetadataDB_localbytes(start) - maxbytes
         => MetadataDB_localbytes(inst[Me].blobs) <= maxbytes

\* C11 witness: a run that had to reclaim, found enough eligible bytes and
\* unlinked more than one file.
C11_Witness ==
  /\ Removed
  /\ LET start == TouchFlushed(clast[1].pre[1]).blobs
     IN /\ MetadataDB_localbytes(start) > maxbytes
        /\ EligibleBytes(start) >= MetadataDB_localbytes(start) - maxbytes
  /\ Cardinality(clast[1].pre[1].disk \ inst[Me].disk) > 1

\* C11 as stated, the eligible blobs and localbytes() taken from the catalog
\* at the call of do_removals, before it flushes touched_blobs: with enough
\* eligible bytes the run ends with localbytes() at most maxbytes.
C11_AtCall ==
  Removed =>
    LET start == clast[1].pre[1].blobs
    IN EligibleBytes(start) >= MetadataDB_localbytes(start) - maxbytes
         => MetadataDB_localbytes(inst[Me].blobs) <= maxbytes

\* Of the rows of catalog start, those a run of do_removals marked deleted.
Evicted(start) ==
  {h \in DOMAIN start : start[h].present = 1 /\ inst[Me].blobs[h].present = 0}

C13_CatalogMatchesDisk ==
  \A h \in inst[Me].disk \cup DOMAIN inst[Me].blobs :
     h \in inst[Me].disk <=>
       /\ h \in DOMAIN inst[Me].blobs
       /\ inst[Me].blobs[h].present = 1
       /\ inst[Me].blobs[h].size = Blob_len(h.of)

\* C14: an inode-log row is marked synced only after the blob holding its
\* encoded entry has been uploaded: to_upload_nodes never returns a row whose
\* entry blob has synced=0, and every row with synced=1 references a blob
\* that is on the remote.
C14_SyncedRowsUploaded ==
  \A p \in Peers :
    /\ \A r \in Range(MetadataDB_to_upload_nodes(inst[p].nodes, inst[p].blobs)) :
         r.hash \in DOMAIN inst[p].blobs /\ inst[p].blobs[r.hash].synced = 1
    /\ \A r \in inst[p].nodes : r.synced = 1 => r.hash \in remote

\* C14 witness: the row of the root entry made by chmod is marked synced,
\* while a later row of the log is still held back.
C14_Witness ==
  /\ \E r \in inst[Me].nodes : r.synced = 1 /\ Decode(r.hash.of).perm = 448
  /\ \E r \in inst[Me].nodes : r.synced = 0

\* C15: in every reachable state, also after a crash between save_node and
\* do_save, the entry digest of every row of the inode log is known to the
\* blob catalog: it has a row there (synced=1, or synced=0 and so returned by
\* to_upload()), or it is queued for the catalog in written_blobs (next
\* do_save) or in touched_blobs (next do_removals).
C15_LogDigestsInCatalog ==
  \A r \in inst[Me].nodes :
     \/ r.hash \in DOMAIN inst[Me].blobs
     \/ \E i \in DOMAIN inst[Me].written_blobs : inst[Me].written_blobs[i].hash = r.hash
     \/ r.hash \in DOMAIN inst[Me].touched_blobs

\* The digests in the block lists of the entries stored in the log of st.
LogBlocks(st) == UNION {Range(Decode(r.hash.of).blocks) : r \in st.nodes}

LogNodes(st) == {r.id : r \in st.nodes}

\* C17: for each inode the rows in ascending rowid order have vector clocks
\* that form a non-decreasing chain: each row's clock is Greater than or
\* Equal to the clock of the row before it (a row that is the output of a
\* merge dominates every earlier row, the row before it among them).
C17_LogChain ==
  \A p \in Peers : \A node \in LogNodes(inst[p]) :
    \A log \in {NodeLog(inst[p].nodes, node)} :
      \A i \in 2..Len(log) :
         FSEntry_cmp_vclock(Decode(log[i].of), Decode(log[i - 1].of))
           \in {"Greater", "Equal"}


\* The transport call a thread is in, and the shard locks of the inode caches.
InTransport(t) == Running(t) /\ Ins(t)[1] \in {"pull", "push"}
InodeShardLocks == {Lock("node_cache"), Lock("blob_cache")}

\* C18: no reachable state is a deadlock (while a thread has not finished its
\* call, some thread can take a step); no thread asks for an inode-shard lock
\* (node_cache, blob_cache) while it holds the catalog mutex, and no thread is
\* in a transport call while it holds the catalog mutex or asks for a lock
\* from inside one; no thread holds the ongoing lock while its transport call
\* runs, so a thread that asks for the ongoing lock to start a fetch while a
\* pull is in flight gets it unless a thread that is not in a transport call
\* holds it.
C18_LockOrderNoDeadlock ==
  /\ (\E t \in LockThreads : Running(t)) => ENABLED (\E t \in LockThreads : LockStep(t))
  /\ \A t \in LockThreads :
       /\ (Running(t) /\ Ins(t)[1] = "acq" /\ Lock(Ins(t)[2]) \in InodeShardLocks)
            => ~Holds(t, Lock("catalog"))
       /\ InTransport(t) => ~Holds(t, Lock("catalog")) /\ ~Holds(t, Lock("ongoing"))
  /\ \A t, u \in LockThreads :
       (InTransport(t) /\ Running(u) /\ Ins(u) = Acq("ongoing", "w"))
         => \/ ENABLED LAcquire(u)
            \/ \E v \in LockThreads : Holds(v, Lock("ongoing")) /\ ~InTransport(v)

\* The read's pull of digest 1 is in flight under its blob_cache guard, the
\* getattr has registered its fetch of digest 2 and is in its own pull under
\* its node_cache guard, the release waits for the node_cache lock and the
\* readahead closure is about to take the ongoing lock.
C18_Witness ==
  /\ InTransport("read") /\ lreg[1] = "read" /\ Holds("read", Lock("blob_cache"))
  /\ InTransport("getattr") /\ lreg[2] = "getattr" /\ Holds("getattr", Lock("node_cache"))
  /\ Running("release") /\ Ins("release") = Acq("node_cache", "w")
  /\ ~ENABLED LAcquire("release")
  /\ Running("readahead") /\ Ins("readahead") = Acq("ongoing", "w")
  /\ ENABLED LAcquire("readahead")


\* The rows of the catalog with synced = 0, and the restart that follows a
\* do_uploads stopped after it marked at least one batch.
Unsynced(blobs) == {h \in DOMAIN blobs : blobs[h].synced = 0}
RestartedInUploads == clast # None /\ clast[1].op = "restart" /\ clast[1].arg

\* C19: upload progress survives a crash. After a restart that follows a
\* do_uploads stopped after some blobs were marked synced, the catalog is the
\* one the stopped run left, and to_upload() returns only rows with synced = 0,
\* without repetition: all of them when they are at most TO_UPLOAD, otherwise
\* the TO_UPLOAD of them with the smallest rowid. When do_uploads returns Ok
\* to_upload() is empty.
C19_UploadProgressSurvives ==
  /\ RestartedInUploads =>
       \A b \in {inst[Me].blobs} : \A up \in {MetadataDB_to_upload(b)} :
         /\ b = clast[1].pre[1].blobs
         /\ Range(up) \subseteq Unsynced(b)
         /\ Cardinality(Range(up)) = Len(up)
         /\ Len(up) = IF Cardinality(Unsynced(b)) < TO_UPLOAD
                      THEN Cardinality(Unsynced(b)) ELSE TO_UPLOAD
         /\ \A h \in Range(up), g \in Unsynced(b) \ Range(up) : b[h].rowid < b[g].rowid
  /\ (clast # None /\ clast[1].op = "do_uploads" /\ clast[1].res = "Ok")
       => MetadataDB_to_upload(inst[Me].blobs) = <<>>

\* A restart after a stopped do_uploads that left both synced rows and at
\* least one and at most TO_UPLOAD rows with synced = 0.
C19_Witness ==
  /\ RestartedInUploads
  /\ Unsynced(inst[Me].blobs) # {}
  /\ Cardinality(Unsynced(inst[Me].blobs)) <= TO_UPLOAD
  /\ \E h \in DOMAIN inst[Me].blobs : inst[Me].blobs[h].synced = 1

\* C19 as stated: after the restart to_upload() returns exactly the digests of
\* the blobs not yet marked synced.
C19_ReturnsAllUnsynced ==
  RestartedInUploads =>
    Range(MetadataDB_to_upload(inst[Me].blobs)) = Unsynced(inst[Me].blobs)


\* The bytes of the blobs of a set of digests, and the digests a queue of
\* written_blobs names.
RECURSIVE BlobBytes(_)
BlobBytes(hashes) ==
  IF hashes = {} THEN 0
  ELSE LET h == CHOOSE x \in hashes : TRUE
       IN Blob_len(h.of) + BlobBytes(hashes \ {h})
Written(st) == {st.written_blobs[i].hash : i \in DOMAIN st.written_blobs}

\* C20: add_blob is idempotent in the digest. When add_blob returns, the
\* digest it returned is the hash of the bytes and names the one blob file
\* holding these bytes, however often they were added. When do_save returns,
\* the catalog has the rows it had and one row for each digest that was
\* added, present and with the size of the bytes, and localbytes() has grown
\* by the size of each added digest that had no present row before, counted
\* once however often it was added.
C20_AddBlobIdempotent ==
  /\ (clast # None /\ clast[1].op = "add_blob") =>
       /\ clast[1].res = Blob_hash(clast[1].res.of)
       /\ clast[1].res \in inst[Me].disk
       /\ Cardinality({h \in inst[Me].disk : h.of = clast[1].res.of}) = 1
  /\ (clast # None /\ clast[1].op = "do_save") =>
       \A pre \in {clast[1].pre[1]} : \A b \in {inst[Me].blobs} :
         /\ DOMAIN b = DOMAIN pre.blobs \cup Written(pre)
         /\ \A h \in Written(pre) : b[h].present = 1 /\ b[h].size = Blob_len(h.of)
         /\ MetadataDB_localbytes(b)
              = MetadataDB_localbytes(pre.blobs)
                + BlobBytes({h \in Written(pre) :
                               h \notin DOMAIN pre.blobs \/ pre.blobs[h].present = 0})

\* do_save has returned after the same bytes were added twice since the last
\* do_save, their digest having no row before: localbytes() grew by their
\* size, once.
C20_Witness ==
  /\ clast # None /\ clast[1].op = "do_save"
  /\ \E i, j \in DOMAIN clast[1].pre[1].written_blobs :
       /\ i < j
       /\ clast[1].pre[1].written_blobs[i].hash = clast[1].pre[1].written_blobs[j].hash
       /\ clast[1].pre[1].written_blobs[i].hash \notin DOMAIN clast[1].pre[1].blobs
       /\ MetadataDB_localbytes(inst[Me].blobs)
            = MetadataDB_localbytes(clast[1].pre[1].blobs)
              + Blob_len(clast[1].pre[1].written_blobs[i].hash.of)


\* The synced flag a digest has in a catalog: 0 for a digest with no row.
SyncedFlag(blobs, h) == IF h \in DOMAIN blobs THEN blobs[h].synced ELSE 0

\* C21: set_blobs, touch_blobs and mark_deleted_blobs leave the synced flag of
\* every digest as it was, 0 for a digest that had no row. When do_save
\* (set_blobs) or do_removals (touch_blobs, then mark_deleted_blobs) returns,
\* every row has the flag the digest had at the call and no row is gone, so a
\* row with synced = 1 still has synced = 1.
C21_SyncedPreserved ==
  (clast # None /\ clast[1].op \in {"do_save", "do_removals"}) =>
    \A pre \in {clast[1].pre[1].blobs} : \A b \in {inst[Me].blobs} :
      /\ DOMAIN pre \subseteq DOMAIN b
      /\ \A h \in DOMAIN b : b[h].synced = SyncedFlag(pre, h)

\* do_save has replaced the row of a digest that was synced, and inserted the
\* row of a digest that had none.
C21_Witness ==
  /\ clast # None /\ clast[1].op = "do_save"
  /\ \E h, g \in Written(clast[1].pre[1]) :
       /\ SyncedFlag(clast[1].pre[1].blobs, h) = 1
       /\ inst[Me].blobs[h].last_use > clast[1].pre[1].blobs[h].last_use
       /\ g \notin DOMAIN clast[1].pre[1].blobs


\* The call of SpecLog that returned last, with the entry it was given, and
\* whether the log at the call held a row of that revision.
Saved(op) == clast # None /\ clast[1].op = op
HadRevision(nodes, e) ==
  MetadataDB_node_exists_long(nodes, RootNode, Blob_hash(Encode(e)), FSEntry_timeval(e))

\* C22: identical revisions are idempotent. When set_node or save_node
\* returns from a call with a revision whose (node, entry digest, logical
\* clock) had a row at the call, the rows of the log are those of the call:
\* none was added and none changed.
C22_IdenticalRevisionIdempotent ==
  (Saved("set_node") \/ Saved("save_node")) =>
    (HadRevision(clast[1].pre[1].nodes, clast[1].arg)
       => inst[Me].nodes = clast[1].pre[1].nodes /\ clast[1].res = "Ok")

\* save_node returned from a call with a revision that is in the log at a
\* row behind the head.
C22_Witness ==
  /\ Saved("save_node")
  /\ HadRevision(clast[1].pre[1].nodes, clast[1].arg)
  /\ HeadRow(clast[1].pre[1].nodes, RootNode).hash # Blob_hash(Encode(clast[1].arg))
  /\ Cardinality(inst[Me].nodes) > 2


\* The entry of the head row of the root, and the rows of the root whose
\* entry e strictly dominates.
HeadEntry(nodes) == Decode(HeadRow(nodes, RootNode).hash.of)
Dominated(nodes, e) ==
  {r \in NodeRows(nodes, RootNode) : FSEntry_cmp_vclock(e, Decode(r.hash.of)) = "Greater"}

\* save_node returned Ok from a call with a new revision whose vector clock
\* was in conflict with the head's.
SavedConflict ==
  /\ Saved("save_node") /\ clast[1].res = "Ok"
  /\ ~HadRevision(clast[1].pre[1].nodes, clast[1].arg)
  /\ FSEntry_cmp_vclock(clast[1].arg, HeadEntry(clast[1].pre[1].nodes)) = "Conflict"

\* C27: when save_node has an entry whose vector clock conflicts with the
\* head's, the new head is merge_3way(base, incoming, current), base being the
\* entry of the row with the largest rowid among the rows whose entry the
\* incoming entry strictly dominates, and the vector clock of the new head
\* compares Greater with the incoming entry's and with the previous head's.
C27_ConflictMerges ==
  SavedConflict =>
    \A e \in {clast[1].arg} : \A old \in {clast[1].pre[1].nodes} :
      \A dom \in {Dominated(old, e)} :
        /\ dom # {}
        /\ \E r \in dom :
             /\ \A q \in dom : q.rowid <= r.rowid
             /\ HeadEntry(inst[Me].nodes)
                  = FSEntry_merge_3way(Decode(r.hash.of), e, HeadEntry(old))
        /\ FSEntry_cmp_vclock(HeadEntry(inst[Me].nodes), e) = "Greater"
        /\ FSEntry_cmp_vclock(HeadEntry(inst[Me].nodes), HeadEntry(old)) = "Greater"

\* A conflict whose base is not the first row of the log and not the row
\* right below the head: the walk of read_earlier_node passed a row that the
\* incoming entry does not dominate.
C27_Witness ==
  /\ SavedConflict
  /\ \E r \in Dominated(clast[1].pre[1].nodes, clast[1].arg) :
       /\ \A q \in Dominated(clast[1].pre[1].nodes, clast[1].arg) : q.rowid <= r.rowid
       /\ r.rowid > 1
       /\ \E q \in NodeRows(clast[1].pre[1].nodes, RootNode) :
            /\ r.rowid < q.rowid
            /\ q.rowid < HeadRow(clast[1].pre[1].nodes, RootNode).rowid


\* save_node returned Ok from a call with a new revision whose vector clock
\* was Less than the head's.
SavedLess ==
  /\ Saved("save_node") /\ clast[1].res = "Ok"
  /\ ~HadRevision(clast[1].pre[1].nodes, clast[1].arg)
  /\ FSEntry_cmp_vclock(clast[1].arg, HeadEntry(clast[1].pre[1].nodes)) = "Less"

\* C28: when save_node has an entry whose vector clock is Less than the
\* head's, get_node returns the digest it returned before, get_earlier_node
\* below the rowid of the head returns the digest of the new entry, and every
\* revision (digest and logical clock) the log held is still in the log,
\* which has one row more.
C28_LessGoesBehindHead ==
  SavedLess =>
    \A new \in {inst[Me].nodes} : \A old \in {clast[1].pre[1].nodes} :
      /\ MetadataDB_get_node(new, RootNode) = MetadataDB_get_node(old, RootNode)
      /\ MetadataDB_get_earlier_node(new, RootNode, HeadRow(new, RootNode).rowid)
           # None
      /\ MetadataDB_get_earlier_node(new, RootNode, HeadRow(new, RootNode).rowid)[1].hash
           = Blob_hash(Encode(clast[1].arg))
      /\ \A r \in old : \E q \in new :
           q.id = r.id /\ q.hash = r.hash /\ q.creation = r.creation
      /\ Cardinality(new) = Cardinality(old) + 1

\* An entry went behind the head of a log that held more than two rows.
C28_Witness ==
  /\ SavedLess
  /\ Cardinality(NodeRows(clast[1].pre[1].nodes, RootNode)) > 2
  /\ Cardinality(NodeRows(inst[Me].nodes, RootNode)) > 3


\* C29: for each of the fields perm, uid, gid, flags, rdev, size and blocks
\* and in both orders of the arguments, merge_3way keeps the change of the one
\* side that changed the field: when exactly one of the two entries differs
\* from base in the field the merged value is that entry's, and when neither
\* differs it is base's.
C29_ScalarChangeKept ==
  mOut # None =>
    \A f \in ScalarFields : \A i \in {1, 2} :
      /\ (mFirst[f] # mBase[f] /\ mSecond[f] = mBase[f]) => mOut[i][f] = mFirst[f]
      /\ (mFirst[f] = mBase[f] /\ mSecond[f] # mBase[f]) => mOut[i][f] = mSecond[f]
      /\ (mFirst[f] = mBase[f] /\ mSecond[f] = mBase[f]) => mOut[i][f] = mBase[f]

\* The block list was changed only by the entry with the smaller clock and
\* the smaller peer number, the right side of the merge, and the merge has
\* its block list.
C29_Witness ==
  /\ mOut # None
  /\ mFirst.blocks = mBase.blocks /\ mSecond.blocks # mBase.blocks
  /\ mBase.blocks # FieldDefault("blocks")
  /\ mSecond.clock < mFirst.clock /\ mSecond.peernum < mFirst.peernum
  /\ mOut[1].blocks = mSecond.blocks

\* C30: in the merge of the children and of the xattrs, in both orders of the
\* arguments, a key of base is absent from the merged map only if one entry
\* removed it and the other entry removed it too or left its value equal to
\* base's.
C30_DeletionNeverBeatsChange ==
  mOut # None =>
    \A f \in {"children", "xattrs"} : \A i \in {1, 2} : \A k \in DOMAIN mBase[f] :
      k \notin DOMAIN mOut[i][f] =>
        \/ /\ k \notin DOMAIN mFirst[f]
           /\ MapGet(mSecond[f], k) \in {None, MapGet(mBase[f], k)}
        \/ /\ k \notin DOMAIN mSecond[f]
           /\ MapGet(mFirst[f], k) \in {None, MapGet(mBase[f], k)}


\* The blocks of the file open at handle h that are sparse: inside the file,
\* the placeholder in the block list of the entry get_node returns, and not
\* held by the write-back cache.
SparseBlocks(st, h) ==
  LET node == st.handles[h]
      g == BackingStore_get_node(st, remote, node, TRUE, now[Me])
  IN IF g.res # "Ok" THEN {}
     ELSE {i \in 0..(Len(g.entry.blocks) - 1) :
             /\ g.entry.blocks[i + 1] = BackingStore_blob_zero
             /\ i * BLKSIZE < g.entry.size
             /\ ~(node \in DOMAIN st.blob_cache /\ i \in DOMAIN st.blob_cache[node])}

\* C25: a read of a block whose entry in the block list is the unallocated
\* placeholder returns Ok with zero bytes of the requested length and fetches
\* nothing: in every state, a read of a whole sparse block of an open file
\* returns BLKSIZE zero bytes (fewer at the end of the file) and leaves the
\* files on local disk as they are.
C25_SparseReadZeros ==
  \A h \in DOMAIN inst[Me].handles : \A i \in SparseBlocks(inst[Me], h) :
    \A r \in {FS_read(inst[Me], remote, h, i * BLKSIZE, BLKSIZE, TRUE, now[Me])} :
      /\ r.res = "Ok"
      /\ \A k \in DOMAIN r.bytes : r.bytes[k] = 0
      /\ Len(r.bytes) = MinOf(BLKSIZE,
           BackingStore_get_node(inst[Me], remote, inst[Me].handles[h], TRUE,
                                 now[Me]).entry.size - i * BLKSIZE)
      /\ r.st.disk = inst[Me].disk


(***************************************************************************)
(* bincode encoding of the serde-derived types: src/src/filesystem/entry.rs*)
(* and vclock.rs. Fields are written in declaration order; integers are    *)
(* little endian at their declared width; a Vec, a String and a BTreeMap   *)
(* are a u64 length followed by the items, a map in key order; an enum is  *)
(* the u32 index of its variant; a fixed array has no length. An encoding  *)
(* is a sequence of bytes in which a digest stands for its HASHSIZE bytes. *)
(***************************************************************************)
RECURSIVE Flatten(_)
Flatten(seqs) == IF seqs = <<>> THEN <<>> ELSE Head(seqs) \o Flatten(Tail(seqs))

\* A non-negative integer below 2^31 at a width of w >= 4 bytes.
LittleEndian(n, w) ==
  [i \in 1..w |-> IF i = 1 THEN n % 256
                  ELSE IF i = 2 THEN (n \div 256) % 256
                  ELSE IF i = 3 THEN (n \div 65536) % 256
                  ELSE IF i = 4 THEN (n \div 16777216) % 256
                  ELSE 0]
FromLittleEndian(b) == b[1] + 256 * b[2] + 65536 * b[3] + 16777216 * b[4]

\* The variants of FileTypeDef in declaration order.
FileTypeDef ==
  <<"NamedPipe", "CharDevice", "BlockDevice", "Directory", "RegularFile",
    "Symlink", "Socket">>

\* A variant index that counts from one.
VariantIndex_fromone(ft) == CHOOSE i \in DOMAIN FileTypeDef : FileTypeDef[i] = ft

\* The u32 variant index serde derives for FileTypeDef: counted from zero.
VariantIndex(ft) == (CHOOSE i \in DOMAIN FileTypeDef : FileTypeDef[i] = ft) - 1

\* The UTF-8 bytes of the names the entries of the model use.
Utf8(name) == IF name = "foo" THEN <<102, 111, 111>> ELSE <<98, 97, 114>>
Utf8Names == {"foo", "bar"}

\* Ord for byte strings: the order of the keys of a BTreeMap<String, _>.
RECURSIVE BytesLess(_, _)
BytesLess(a, b) ==
  IF b = <<>> THEN FALSE
  ELSE IF a = <<>> THEN TRUE
  ELSE IF Head(a) # Head(b) THEN Head(a) < Head(b)
  ELSE BytesLess(Tail(a), Tail(b))

\* The keys of a BTreeMap<String, _> in iteration order.
RECURSIVE SortedNames(_)
SortedNames(S) ==
  IF S = {} THEN <<>>
  ELSE LET m == CHOOSE x \in S : \A y \in S \ {x} : BytesLess(Utf8(x), Utf8(y))
       IN <<m>> \o SortedNames(S \ {m})

\* TimespecDef {sec: i64, nsec: i32} of a time of the model (milliseconds).
ser_Timespec(t) ==
  LittleEndian(t \div 1000, 8) \o LittleEndian((t % 1000) * 1000000, 4)

\* VectorClock {peers: BTreeMap<i64, u64>}
ser_VectorClock(vc) ==
  LET keys == SortedKeys(DOMAIN vc)
  IN LittleEndian(Len(keys), 8) \o
     Flatten([i \in DOMAIN keys |->
                LittleEndian(keys[i], 8) \o LittleEndian(vc[keys[i]], 8)])

ser_String(s) == LittleEndian(Len(Utf8(s)), 8) \o Utf8(s)

\* children: BTreeMap<String, (NodeId, FileTypeDef)>, NodeId = (i64, u64)
ser_children(ch) ==
  LET keys == SortedNames(DOMAIN ch)
  IN LittleEndian(Len(keys), 8) \o
     Flatten([i \in DOMAIN keys |->
                ser_String(keys[i]) \o LittleEndian(ch[keys[i]][1][1], 8) \o
                LittleEndian(ch[keys[i]][1][2], 8) \o
                LittleEndian(VariantIndex(ch[keys[i]][2]), 4)])

\* xattrs: BTreeMap<String, Vec<u8>>
ser_xattrs(xa) ==
  LET keys == SortedNames(DOMAIN xa)
  IN LittleEndian(Len(keys), 8) \o
     Flatten([i \in DOMAIN keys |->
                ser_String(keys[i]) \o LittleEndian(Len(xa[keys[i]]), 8) \o
                xa[keys[i]]])

\* bincode::serialize(&entry) for the derived Serialize of FSEntry.
bincode_serialize(e) ==
  Flatten(<<ser_Timespec(e.clock), ser_VectorClock(e.vclock),
            LittleEndian(e.peernum, 8), LittleEndian(VariantIndex(e.filetype), 4),
            LittleEndian(e.perm, 4), LittleEndian(e.uid, 4),
            LittleEndian(e.gid, 4), LittleEndian(e.flags, 4),
            LittleEndian(e.rdev, 4),
            ser_Timespec(e.atime), ser_Timespec(e.mtime), ser_Timespec(e.ctime),
            ser_Timespec(e.crtime), ser_Timespec(e.chgtime),
            ser_Timespec(e.bkuptime),
            LittleEndian(e.size, 8),
            LittleEndian(Len(e.blocks), 8), e.blocks,
            ser_children(e.children), ser_xattrs(e.xattrs)>>)

\* Readers take the bytes left and return the value read and the rest.
Rest(b, n) == SubSeq(b, n + 1, Len(b))
de_int(b, w) == [v |-> FromLittleEndian(b), rest |-> Rest(b, w)]
de_Timespec(b) ==
  LET sec == de_int(b, 8)
      nsec == de_int(sec.rest, 4)
  IN [v |-> sec.v * 1000 + nsec.v \div 1000000, rest |-> nsec.rest]
de_FileTypeDef(b) ==
  LET i == de_int(b, 4) IN [v |-> FileTypeDef[i.v + 1], rest |-> i.rest]
de_String(b) ==
  LET n == de_int(b, 8)
      bytes == SubSeq(n.rest, 1, n.v)
  IN [v |-> CHOOSE s \in Utf8Names : Utf8(s) = bytes, rest |-> Rest(n.rest, n.v)]

\* n more items of a map or a Vec, inserted into acc.
RECURSIVE de_peers(_, _, _)
de_peers(b, n, acc) ==
  IF n = 0 THEN [v |-> acc, rest |-> b]
  ELSE LET k == de_int(b, 8)
           c == de_int(k.rest, 8)
       IN de_peers(c.rest, n - 1,
                   [x \in DOMAIN acc \cup {k.v} |-> IF x = k.v THEN c.v ELSE acc[x]])
RECURSIVE de_children(_, _, _)
de_children(b, n, acc) ==
  IF n = 0 THEN [v |-> acc, rest |-> b]
  ELSE LET k == de_String(b)
           peer == de_int(k.rest, 8)
           id == de_int(peer.rest, 8)
           ft == de_FileTypeDef(id.rest)
       IN de_children(ft.rest, n - 1,
                      [x \in DOMAIN acc \cup {k.v} |->
                         IF x = k.v THEN <<<<peer.v, id.v>>, ft.v>> ELSE acc[x]])
RECURSIVE de_xattrs(_, _, _)
de_xattrs(b, n, acc) ==
  IF n = 0 THEN [v |-> acc, rest |-> b]
  ELSE LET k == de_String(b)
           len == de_int(k.rest, 8)
       IN de_xattrs(Rest(len.rest, len.v), n - 1,
                    [x \in DOMAIN acc \cup {k.v} |->
                       IF x = k.v THEN SubSeq(len.rest, 1, len.v) ELSE acc[x]])

\* bincode::deserialize::<FSEntry>(&bytes) for the derived Deserialize.
bincode_deserialize(bytes) ==
  LET clock == de_Timespec(bytes)
      nvc == de_int(clock.rest, 8)
      vclock == de_peers(nvc.rest, nvc.v, EmptyMap)
      peernum == de_int(vclock.rest, 8)
      filetype == de_FileTypeDef(peernum.rest)
      perm == de_int(filetype.rest, 4)
      uid == de_int(perm.rest, 4)
      gid == de_int(uid.rest, 4)
      flags == de_int(gid.rest, 4)
      rdev == de_int(flags.rest, 4)
      atime == de_Timespec(rdev.rest)
      mtime == de_Timespec(atime.rest)
      ctime == de_Timespec(mtime.rest)
      crtime == de_Timespec(ctime.rest)
      chgtime == de_Timespec(crtime.rest)
      bkuptime == de_Timespec(chgtime.rest)
      size == de_int(bkuptime.rest, 8)
      nblocks == de_int(size.rest, 8)
      blocks == SubSeq(nblocks.rest, 1, nblocks.v)
      nch == de_int(Rest(nblocks.rest, nblocks.v), 8)
      children == de_children(nch.rest, nch.v, EmptyMap)
      nxa == de_int(children.rest, 8)
      xattrs == de_xattrs(nxa.rest, nxa.v, EmptyMap)
  IN [clock |-> clock.v, vclock |-> vclock.v, peernum |-> peernum.v,
      filetype |-> filetype.v, perm |-> perm.v, uid |-> uid.v, gid |-> gid.v,
      flags |-> flags.v, rdev |-> rdev.v, atime |-> atime.v, mtime |-> mtime.v,
      ctime |-> ctime.v, crtime |-> crtime.v, chgtime |-> chgtime.v,
      bkuptime |-> bkuptime.v, size |-> size.v, blocks |-> blocks,
      children |-> children.v, xattrs |-> xattrs.v]

\* The entries the round trip is tried on: every file type, entries changed
\* in one scalar field or in their maps, with one or two vector clock peers.
CodecInputs ==
  {[e EXCEPT !.filetype = FileTypeDef[i], !.vclock = VectorClock_merge(e.vclock, vc)] :
     e \in UNION {ScalarInputs(p) \cup MapInputs(p) : p \in Peers},
     i \in {4, 5},
     vc \in {VectorClock_new, VectorClock_increment(VectorClock_new, 11)}}

\* The test serialization_roundtrips on the entry mBase: the encoding, the
\* decoded entry and the encoding of the decoded entry.
serialization_roundtrips ==
  /\ mOut = None
  /\ \E encoded \in {bincode_serialize(mBase)} :
       \E entry2 \in {bincode_deserialize(encoded)} :
         mOut' = <<encoded, entry2, bincode_serialize(entry2)>>
  /\ UNCHANGED <<mBase, mFirst, mSecond>>

InitCodec ==
  /\ VClockIdle /\ WorldIdle /\ FetchIdle /\ PeersIdle /\ SaveIdle /\ StoreIdle
  /\ CatalogIdle /\ LocksIdle /\ TasksIdle
  /\ mBase \in CodecInputs /\ mFirst = mBase /\ mSecond = mBase /\ mOut = None
NextCodec == serialization_roundtrips /\ MergeFrame
SpecCodec == InitCodec /\ [][NextCodec]_vars

\* C26: encoding round-trips and is canonical: for every entry e,
\* decode(encode(e)) = e and encode(decode(encode(e))) = encode(e), so the
\* digest of the encoding is the same before and after the round trip.
C26_RoundTripCanonical ==
  mOut # None =>
    /\ mOut[1] = bincode_serialize(mBase)
    /\ mOut[2] = mBase
    /\ mOut[3] = mOut[1]
    /\ Blob_hash(DataBlob(mOut[3])) = Blob_hash(DataBlob(mOut[1]))

\* A round trip of a directory entry with two vector clock peers, two
\* children, which the encoding holds in the order bar, foo, and one xattr.
C26_Witness ==
  /\ mOut # None
  /\ mBase.filetype = "Directory"
  /\ Cardinality(DOMAIN mBase.vclock) = 2
  /\ DOMAIN mBase.children = {"foo", "bar"}
  /\ DOMAIN mBase.xattrs = {"foo"}
  /\ mOut[1] # bincode_serialize([mBase EXCEPT !.children = EmptyMap])


\* The number of leading lines of the nodes file of instance 22 that
\* save_node has been applied to: the first line not yet applied is the next.
AppliedPrefix ==
  CHOOSE k \in 0..Len(srvNodes[22]) :
    /\ \A i \in 1..k : i \in Range(tapplied)
    /\ k = Len(srvNodes[22]) \/ (k + 1) \notin Range(tapplied)

\* C23: the stored cursor of a peer is always at the first line of its log
\* not yet applied, so that a run that resumes after a crash, or a later run,
\* applies no line twice and skips none: whenever do_downloads_nodes is not
\* between save_node and set_peer of a line, the cursor of instance 22 is
\* the number of lines applied, and no line has been applied twice.
C23_CursorAtFirstUnapplied ==
  tpc["nodes2"] # "saved" =>
    /\ MetadataDB_get_peer(inst[Me].offsets, 22) = AppliedPrefix
    /\ \A i, j \in DOMAIN tapplied : i # j => tapplied[i] # tapplied[j]

\* C24: a failure inside one run of a background task is logged and does not
\* stop the task: the thread of the task whose run failed last has not
\* ended, it waits for its next tick or is in a later run.
C24_FailedTaskRunsAgain ==
  (tlast # None /\ tlast[1].res # "Ok") => tpc[tlast[1].task] # "dead"


\* The counter a clock holds for a peer, an absent peer counted as 0.
Counter(vc, p) == IF p \in DOMAIN vc THEN vc[p] ELSE 0

\* C31: VectorClock.merge(a, b) maps every peer in the union of the keys to
\* max(a[peer], b[peer]) with an absent peer counted as 0, so that
\* merge(a, b) = merge(b, a) and the result compares Greater or Equal to
\* both a and b; stated for every pair of the clocks reached by increment
\* and merge.
C31_MergeIsJoin ==
  \A a, b \in {vcA, vcB, vcC} :
    \A m \in {VectorClock_merge(a, b)} :
      /\ DOMAIN m = DOMAIN a \cup DOMAIN b
      /\ \A p \in DOMAIN m : m[p] = MaxOf(Counter(a, p), Counter(b, p))
      /\ m = VectorClock_merge(b, a)
      /\ VectorClock_cmp(m, a) \in {"Greater", "Equal"}
      /\ VectorClock_cmp(m, b) \in {"Greater", "Equal"}

\* C31 witness: two conflicting clocks over different key sets, and a third
\* clock that is their merge and Greater than both.
C31_Witness ==
  /\ VectorClock_cmp(vcB, vcC) = "Conflict"
  /\ DOMAIN vcB # DOMAIN vcC
  /\ vcA = VectorClock_merge(vcB, vcC)
  /\ VectorClock_cmp(vcA, vcB) = "Greater"
  /\ VectorClock_cmp(vcA, vcC) = "Greater"


\* The entries instance st holds: the revisions in its catalog and the
\* entries in its node cache.
HeldEntries(st) ==
  {Decode(r.hash.of) : r \in st.nodes} \cup
  {st.node_cache[n] : n \in DOMAIN st.node_cache}

\* C32: every inode entry the inode layer saves after any sequence of write
\* and truncate operations has a block list of length ceil(size / BLKSIZE),
\* so that a read of any offset below size finds a slot of the list.
C32_BlockListCoversSize ==
  \A e \in HeldEntries(inst[Me]) :
    Len(e.blocks) = (e.size + BLKSIZE - 1) \div BLKSIZE


\* C33: to_upload() returns the unsynced blobs in the order of their
\* creation, and a later set_blobs (do_save) or touch_blobs (do_removals) on
\* an unsynced blob does not move it behind blobs created after it: two
\* blobs that are unsynced before and after such a call keep their order in
\* to_upload's ORDER BY rowid.
C33_UploadOrderKept ==
  (clast # None /\ clast[1].op \in {"do_save", "do_removals"}) =>
    \A pre \in {clast[1].pre[1].blobs} : \A b \in {inst[Me].blobs} :
      \A h, g \in DOMAIN pre \cap DOMAIN b :
        (/\ pre[h].synced = 0 /\ pre[g].synced = 0
         /\ b[h].synced = 0 /\ b[g].synced = 0
         /\ pre[h].rowid < pre[g].rowid)
        => b[h].rowid < b[g].rowid


\* save_node called once more with the entry of the call that has just
\* returned.
Reapplied ==
  BlobStorage_save_node(inst[Me], remote, RootNode, clast[1].arg, TRUE, now[Me] + 1)

\* C34: re-applying a revision never moves the head. On the log a call
\* save_node(node, e) has left, whichever branch it took, a second
\* save_node(node, e) returns Ok and the head digest of the node is the one
\* the first call left.
C34_ReapplyKeepsHead ==
  (Saved("save_node") /\ clast[1].res = "Ok") =>
    \A r \in {Reapplied} :
      /\ r.res = "Ok"
      /\ HeadRow(r.st.nodes, RootNode).hash = HeadRow(inst[Me].nodes, RootNode).hash

\* The first call merged a conflict, so that its entry got no row, and the
\* second call puts the entry behind the merged head.
C34_Witness ==
  /\ SavedConflict
  /\ ~HadRevision(inst[Me].nodes, clast[1].arg)
  /\ HadRevision(Reapplied.st.nodes, clast[1].arg)
  /\ HeadRow(Reapplied.st.nodes, RootNode).hash # Blob_hash(Encode(clast[1].arg))


\* C35: writes made through an open handle are not lost when a non-cached
\* mutation of the same inode (here chmod) is saved between the write and the
\* release of the handle: after a release that returned Ok, the block list
\* of the head entry holds, at every index the release flushed, the digest of
\* the flushed block.
C35_WritesSurviveMutation ==
  SyncedOk =>
    \A hb \in {HeadBlocks(inst[Me], lastSync[1].node)} :
      \A i \in DOMAIN lastSync[1].stored :
        i < Len(hb) /\ hb[i + 1] = lastSync[1].stored[i]


\* The block indexes a write of Len(bytes) bytes at offset touches.
WrittenIndexes(w) ==
  {i \in 0..((w.offset + Len(w.bytes) - 1) \div BLKSIZE) : i >= w.offset \div BLKSIZE}

\* C36: a sync_all that runs between the steps of a cached write on the same
\* inode loses no data: sync_all never indexes past the end of the block list
\* of an entry it drained, and once the handle is released with Ok the block
\* list of the head entry holds, at every index a write touched, the digest
\* of a stored block, the bytes of the latest write among them.
C36_SyncAllLosesNoWrite ==
  /\ lastSync # None => lastSync[1].res # "panic"
  /\ (SyncedOk /\ lastSync[1].node # RootNode) =>
       \A hb \in {HeadBlocks(inst[Me], lastSync[1].node)} :
         /\ \A k \in DOMAIN scalls["worker"] :
              \A i \in WrittenIndexes(scalls["worker"][k]) :
                i < Len(hb) /\ hb[i + 1] # BackingStore_blob_zero
         /\ wlast # None =>
              \A p \in wlast[1].offset..(wlast[1].offset + Len(wlast[1].bytes) - 1) :
                /\ p \div BLKSIZE < Len(hb)
                /\ \A d \in {hb[(p \div BLKSIZE) + 1].of.data} :
                     /\ Len(d) > p % BLKSIZE
                     /\ d[(p % BLKSIZE) + 1] = wlast[1].bytes[p - wlast[1].offset + 1]


\* Every handler that was begun has returned.
WorkersIdle == \A w \in Workers : spc[w] = "idle"
\* The closures of the handlers that returned.
ClosuresRun == UNION {Range(scalls[w]) : w \in Workers}

\* C37: concurrent local mutations of one inode lose no update: once two
\* handlers that ran modify_node on the root (creates here) have returned, the
\* head entry of the root holds the child of each, and no two different
\* entries with Equal vector clocks are in the root's log.
C37_NoLostUpdate ==
  /\ (WorkersIdle /\ \A c \in ClosuresRun : c.op = "add_child") =>
       \A e \in {Decode(HeadRow(inst[Me].nodes, RootNode).hash.of)} :
         \A c \in ClosuresRun :
           c.name \in DOMAIN e.children /\ e.children[c.name] = c.child
  /\ \A r, q \in NodeRows(inst[Me].nodes, RootNode) :
       r.hash # q.hash =>
         FSEntry_cmp_vclock(Decode(r.hash.of), Decode(q.hash.of)) # "Equal"

\* C38: a mutation that fails leaves the inode log unchanged: when the
\* closure of unlink, setxattr or removexattr returned an error, modify_node
\* saved no new revision of the inode, and the head's vector clock is the one
\* from before.
C38_FailedMutationSavesNothing ==
  (clast # None /\ clast[1].op \in {"remove_child", "setxattr", "removexattr"}
     /\ clast[1].res \in {"ENOENT", "ENODATA", "EEXIST", "EINVAL"}) =>
    /\ NodeRows(inst[Me].nodes, RootNode) = NodeRows(clast[1].pre[1].nodes, RootNode)
    /\ Decode(HeadRow(inst[Me].nodes, RootNode).hash.of).vclock =
         Decode(HeadRow(clast[1].pre[1].nodes, RootNode).hash.of).vclock

\* C39: do_removals terminates on every run: a run that entered the loop
\* leaves it, also when unlinking a candidate fails while its file exists.
C39_RemovalsTerminate == (tpc["remove"] = "loop") ~> (tpc["remove"] = "waiting")

\* C40: whenever a call of do_uploads_nodes has returned Ok, the server's
\* copy of this peer's node log holds the line of every row of the inode log
\* that is marked synced, rows marked by an earlier call whose push failed
\* among them.
C40_SyncedRowsAreRemote ==
  (tlast # None /\ tlast[1] = [task |-> "nodes1", res |-> "Ok"]) =>
    \A r \in inst[Me].nodes :
      r.synced = 1 => NodeInfo(r) \in Range(srvNodes[Me])
====
